---- MODULE Spec2Model ----
(***************************************************************************)
(* A model of the map-chat frontend's core: the marker reconciliation of   *)
(* MarkerLayer.vue (renderDiff and the three popup passes), the motion     *)
(* gate of useNearby.ts (onCoordsChange / reset) and the nearby fetch of   *)
(* the Home view (fetchNearby).                                            *)
(*                                                                         *)
(* The specifications share the variables:                                 *)
(*   Spec       the MarkerLayer component driven by post lists, zoom       *)
(*              events and the clock;                                      *)
(*   GateSpec   the motion gate with the browser's timers and time;        *)
(*   FetchSpec  fetchNearby with several requests in flight, feeding the   *)
(*              MarkerLayer through the posts prop;                        *)
(*   PopupSpec  the MarkerLayer component with three posts, zoom events    *)
(*              and unmounting;                                            *)
(*   BadPostSpec  the same with posts that lack coordinates;               *)
(*   AggSpec    the aggregate popup of clusters of up to MaxMembers;       *)
(*   ZSpec      the Home view's popupopen / popupclose handlers;           *)
(*   GateLiveSpec, OptGateSpec  the gate under fairness, and with either   *)
(*              threshold option;                                          *)
(*   HomeSpec, LeaveSpec  what calls fetchNearby, and the view unmounted;  *)
(*   FaultSpec  the MarkerLayer on a layer whose cluster nodes misbehave;  *)
(*   RetimeSpec the MarkerLayer given posts whose creation time changes;   *)
(*   FollowSpec the follow flag and the map view;                          *)
(*   NavSpec    the router's guard with the auth store;                    *)
(*   SubmitSpec the post form's submitPost.                                *)
(***************************************************************************)
EXTENDS Integers, Sequences, FiniteSets, TLC

VARIABLES
  \* ---- MarkerLayer.vue
  phase,                 \* "setup" | "mounted" | "unmounted"
  map,                   \* props.map is non-null
  posts,                 \* props.posts
  clock,                 \* wall clock in minutes (read by formatRelative)
  zoom,                  \* the Leaflet map's zoom level
  layer,                 \* layer is non-null
  markerById,            \* the Map<number, L.Marker>, in insertion order
  createdMarkers,        \* L.Marker[] (the markers' object ids)
  representativeMarker,  \* object id, 0 for null
  popupPersistAttached,
  zoomHandlers,          \* how many times the three zoomend handlers are registered on the map
  clusterPopups,         \* the popups of the cluster nodes of the layer
  log,                   \* what the last handler did (calls made, events emitted)
  \* ---- useNearby.ts
  distanceThresholdMeters, \* the closure's threshold: the option, or the default
  lastLat, lastLng,      \* the stored sample, Null when empty
  timer,                 \* the timer id held by the composable, 0 for null
  timers,                \* the browser's pending timeouts
  nextTimerId,           \* the id the next setTimeout returns
  fetchCalls,            \* how often fetchFn was invoked
  gateGhost,             \* bookkeeping of bursts and elapsed time (not program state)
  gateLog,               \* what the last gate event did
  \* ---- Home view (fetchNearby)
  coords,                \* the geolocation, Null when unknown
  nearby,                \* nearby.value
  inflight,              \* requests awaiting their response
  nextSeq,               \* the number of the next request
  alertMessage,          \* alertMessage.value
  fetchLog,              \* what the last fetch event did
  \* ---- Home view (popup stacking)
  nextPopupZ,            \* the z-index counter
  popupHandlers,         \* the WeakMap from popup container to its handler, 0 for none
  surfaces,              \* the popup containers: open, z-index, listeners
  zLog,                  \* what the last popup event did, and the z-indexes assigned so far
  \* ---- Home view (what calls fetchNearby)
  triggerLog,            \* the last trigger, and how many triggers and calls there were
  homeView,              \* "mounted" | "unmounted": the Home view after onMounted
  \* ---- useFollow.ts and the Home view's map view
  following,             \* following.value
  viewCenter,            \* the centre of the map's view, Null without a map
  followLog,             \* what the last follow event did
  \* ---- stores/auth.ts and the router's guard
  auth,                  \* the store's state: whether a token is held, and expiresAt
  now,                   \* Date.now()
  isAuthenticatedCache,  \* the getter's computed value: whether it is fresh, and the value
  route,                 \* the route the last navigation settled on
  navLog,                \* what the last navigation did
  \* ---- Home view (submitPost)
  message,               \* message.value: leading blanks, trimmed length, trailing blanks
  isPosting,             \* isPosting.value
  postInflight,          \* post requests awaiting their response
  postLog                \* what the last submitPost step did

markerVars == <<phase, map, posts, clock, zoom, layer, markerById, createdMarkers,
                representativeMarker, popupPersistAttached, zoomHandlers, clusterPopups,
                log>>
gateVars == <<distanceThresholdMeters, lastLat, lastLng, timer, timers, nextTimerId,
              fetchCalls, gateGhost, gateLog>>
zVars == <<nextPopupZ, popupHandlers, surfaces, zLog>>
followVars == <<following, viewCenter, followLog>>
navVars == <<auth, now, isAuthenticatedCache, route, navLog>>
postVars == <<message, isPosting, postInflight, postLog>>
appVars == <<navVars, postVars>>
homeVars == <<triggerLog, homeView, followVars, appVars>>
fetchVars == <<coords, nearby, inflight, nextSeq, alertMessage, fetchLog, zVars, homeVars>>
vars == <<markerVars, gateVars, fetchVars>>

\* null, for the fields that hold a number or null
Null == -1

\* undefined, for a coordinate a post does not have
Undefined == -2

(***************************************************************************)
(* Bounds of the model.                                                    *)
(***************************************************************************)
MaxPosts == 2      \* longest post list
MaxClock == 1      \* minutes the clock runs
MaxZoom == 1       \* zoom levels 0..MaxZoom

Messages == {"a", "b"}
Positions == {0, 1}

\* A post's creation time (minutes) is fixed by its id.
CreatedAtOf(id) == id - 1

\* The posts a list is made of: post 1 with either message at either position,
\* post 2 with one message at one position.
Post ==
  {[id |-> 1, message |-> m, latlng |-> x, createdAt |-> CreatedAtOf(1)] :
     m \in Messages, x \in Positions}
  \cup {[id |-> 2, message |-> "a", latlng |-> 1, createdAt |-> CreatedAtOf(2)]}

RECURSIVE SeqsUpTo(_, _)
SeqsUpTo(S, n) ==
  IF n = 0 THEN {<<>>}
  ELSE LET shorter == SeqsUpTo(S, n - 1)
       IN shorter \cup {Append(s, e) : s \in {t \in shorter : Len(t) = n - 1}, e \in S}

PostLists == SeqsUpTo(Post, MaxPosts)

Ids(ps) == {ps[k].id : k \in 1..Len(ps)}

(***************************************************************************)
(* formatRelative (Home view): minutes, hours, then the date in JST.       *)
(* Time is counted in whole minutes.                                       *)
(***************************************************************************)
MinutesPerHour == 60
HoursPerDay == 24
JstOffsetHours == 9

formatRelative(iso, nowMin) ==
  LET diff == nowMin - iso
      min == diff
      hr == diff \div MinutesPerHour
  IN IF min < 1 THEN <<"justnow", 0>>
     ELSE IF hr < 1 THEN <<"minutes", min>>
     ELSE IF hr < HoursPerDay THEN <<"hours", hr>>
     ELSE <<"date", (iso + JstOffsetHours * MinutesPerHour) \div (HoursPerDay * MinutesPerHour)>>

\* markerHtml: the message followed by the relative time.
markerHtml(p, nowMin) == <<p.message, formatRelative(p.createdAt, nowMin)>>

(***************************************************************************)
(* The clustering layer (leaflet.markercluster) as the code uses it.       *)
(* Markers sharing a grid cell at the current zoom are shown as one        *)
(* cluster node; a marker alone in its cell is shown itself.  A popup is   *)
(* open only while its marker or cluster node is on the map: Leaflet       *)
(* closes it when the node leaves the map.                                 *)
(***************************************************************************)
RECURSIVE Pow2(_)
Pow2(n) == IF n = 0 THEN 1 ELSE 2 * Pow2(n - 1)

Cell(x, z) == x \div Pow2(MaxZoom - z)

ClusterKeys == {<<z, Cell(x, z)>> : z \in 0..MaxZoom, x \in Positions}

NoPopup == [bound |-> FALSE, open |-> FALSE, content |-> <<>>, autoPan |-> TRUE]

Members(tbl, z, c) == {k \in 1..Len(tbl) : Cell(tbl[k].latlng, z) = c}

IndexOfId(tbl, id) ==
  IF \E k \in 1..Len(tbl) : tbl[k].id = id
  THEN CHOOSE k \in 1..Len(tbl) : tbl[k].id = id
  ELSE 0

IndexOfObj(tbl, o) ==
  IF \E k \in 1..Len(tbl) : tbl[k].obj = o
  THEN CHOOSE k \in 1..Len(tbl) : tbl[k].obj = o
  ELSE 0

\* grp.getVisibleParent(m): the cluster node showing m, m itself, or null.
getVisibleParent(tbl, z, o) ==
  LET k == IndexOfObj(tbl, o)
  IN IF k = 0 THEN [kind |-> "none"]
     ELSE LET c == Cell(tbl[k].latlng, z)
          IN IF Cardinality(Members(tbl, z, c)) >= 2
             THEN [kind |-> "cluster", key |-> <<z, c>>]
             ELSE [kind |-> "marker", obj |-> o]

\* What the layer does by itself after markers or the zoom changed: a marker
\* inside a cluster is off the map (its popup closed), a cluster node exists
\* while it groups two markers or more and is on the map at its own zoom.
Recluster(st) ==
  [st EXCEPT
     !.tbl = [k \in 1..Len(st.tbl) |->
                IF getVisibleParent(st.tbl, st.zoom, st.tbl[k].obj).kind = "marker"
                THEN st.tbl[k]
                ELSE [st.tbl[k] EXCEPT !.open = FALSE]],
     !.cp = [key \in ClusterKeys |->
               IF Cardinality(Members(st.tbl, key[1], key[2])) < 2 THEN NoPopup
               ELSE IF key[1] # st.zoom THEN [st.cp[key] EXCEPT !.open = FALSE]
               ELSE st.cp[key]]]

\* parent.getAllChildMarkers(), in the order the markers joined the layer.
getAllChildMarkers(tbl, key) ==
  LET ks == Members(tbl, key[1], key[2])
  IN SelectSeq([k \in 1..Len(tbl) |-> k], LAMBDA k : k \in ks)

\* children.sort(by createdAt, descending): a stable sort.
RECURSIVE InsertDesc(_, _, _)
InsertDesc(tbl, k, s) ==
  IF s = <<>> THEN <<k>>
  ELSE IF tbl[Head(s)].meta.createdAt >= tbl[k].meta.createdAt
       THEN <<Head(s)>> \o InsertDesc(tbl, k, Tail(s))
       ELSE <<k>> \o s

RECURSIVE SortDesc(_, _)
SortDesc(tbl, ks) ==
  IF ks = <<>> THEN <<>>
  ELSE InsertDesc(tbl, ks[Len(ks)], SortDesc(tbl, SubSeq(ks, 1, Len(ks) - 1)))

AggregateCap == 5

\* What a handler finds when it asks a cluster node for its children: the
\* children; a node that has none; a node without getAllChildMarkers.
Faults == {"none", "nochildren", "nocapability"}

\* parent.getAllChildMarkers ? parent.getAllChildMarkers() : fallback
childMarkers(st, key, fallback) ==
  IF st.fault = "nocapability" THEN fallback
  ELSE IF st.fault = "nochildren" THEN <<>>
  ELSE getAllChildMarkers(st.tbl, key)

\* AggregateItems without the sort: the first children in the layer's order.
AggregateItems_NoSort(tbl, children) ==
  LET n == IF Len(children) < AggregateCap THEN Len(children) ELSE AggregateCap
  IN [j \in 1..n |-> tbl[children[j]].content]

\* children.slice(0, 5).map(popup content)
AggregateItems(tbl, children) ==
  LET sorted == SortDesc(tbl, children)
      n == IF Len(sorted) < AggregateCap THEN Len(sorted) ELSE AggregateCap
  IN [j \in 1..n |-> tbl[sorted[j]].content]

\* AggregateOpen that emits the number of entries shown.
AggregateOpen_EmitsShown(st, key, children) ==
  LET pop == st.cp[key]
      items == AggregateItems(st.tbl, children)
      written == IF pop.bound THEN [pop EXCEPT !.autoPan = FALSE, !.content = items]
                 ELSE [bound |-> TRUE, open |-> FALSE, content |-> items, autoPan |-> FALSE]
  IN [st EXCEPT
        !.cp[key] = [written EXCEPT !.open = TRUE],
        !.cwrites = IF pop.bound THEN @ + 1 ELSE @,
        !.binds = IF pop.bound THEN @ ELSE @ + 1,
        !.copens = IF pop.open THEN @ ELSE @ \cup {key},
        !.emits = Append(@, <<"clusterOpened", Len(items)>>)]

\* AggregateOpen that binds with Leaflet's default options and leaves the
\* options of a bound popup as they are.
AggregateOpen_DefaultOptions(st, key, children) ==
  LET pop == st.cp[key]
      items == AggregateItems(st.tbl, children)
      n == Len(children)
      written == IF pop.bound THEN [pop EXCEPT !.content = items]
                 ELSE [NoPopup EXCEPT !.bound = TRUE, !.content = items]
  IN [st EXCEPT
        !.cp[key] = [written EXCEPT !.open = TRUE],
        !.cwrites = IF pop.bound THEN @ + 1 ELSE @,
        !.binds = IF pop.bound THEN @ ELSE @ + 1,
        !.copens = IF pop.open THEN @ ELSE @ \cup {key},
        !.pans = @ + (IF pop.open /\ written.autoPan THEN 1 ELSE 0)
                   + (IF ~pop.open /\ written.autoPan THEN 1 ELSE 0),
        !.emits = Append(@, <<"clusterOpened", n>>)]

\* Lines 107-118 and 134-145: put the aggregate on the cluster's popup
\* (autoPan off and setContent when one is bound, bindPopup with autoPan off
\* otherwise), open it unless it is open, emit clusterOpened with the number
\* of children.  Leaflet pans the map to a popup with autoPan on when the
\* popup opens and when the content of an open popup is set.
AggregateOpen(st, key, children) ==
  LET pop == st.cp[key]
      items == AggregateItems(st.tbl, children)
      n == Len(children)
      written == IF pop.bound THEN [pop EXCEPT !.autoPan = FALSE, !.content = items]
                 ELSE [bound |-> TRUE, open |-> FALSE, content |-> items, autoPan |-> FALSE]
  IN [st EXCEPT
        !.cp[key] = [written EXCEPT !.open = TRUE],
        !.cwrites = IF pop.bound THEN @ + 1 ELSE @,
        !.binds = IF pop.bound THEN @ ELSE @ + 1,
        !.copens = IF pop.open THEN @ ELSE @ \cup {key},
        !.pans = @ + (IF pop.open /\ written.autoPan THEN 1 ELSE 0)
                   + (IF ~pop.open /\ written.autoPan THEN 1 ELSE 0),
        !.emits = Append(@, <<"clusterOpened", n>>)]

\* OpenMarker without the isPopupOpen test.
OpenMarker_NoGuard(st, k) ==
  [st EXCEPT !.tbl[k].open = TRUE,
             !.opens = IF st.tbl[k].open THEN @ ELSE @ \cup {st.tbl[k].obj},
             !.reopens = IF st.tbl[k].open THEN @ + 1 ELSE @]

\* m.openPopup() unless m.isPopupOpen()
OpenMarker(st, k) ==
  IF st.tbl[k].open THEN st
  ELSE [st EXCEPT !.tbl[k].open = TRUE, !.opens = @ \cup {st.tbl[k].obj},
                  !.pans = IF st.tbl[k].autoPan THEN @ + 1 ELSE @]

\* The children default to the representative alone when the node has no
\* getAllChildMarkers, and an empty list of children is used as it is.
openRepresentativePopup(st) ==
  IF ~st.layer \/ st.rep = 0 THEN st
  ELSE LET parent == getVisibleParent(st.tbl, st.zoom, st.rep)
           k == IndexOfObj(st.tbl, st.rep)
           s == IF parent.kind = "cluster"
                THEN AggregateOpen(st, parent.key, childMarkers(st, parent.key, <<k>>))
                ELSE IF k = 0 THEN st
                ELSE [OpenMarker(st, k) EXCEPT
                        !.emits = Append(@, <<"markerOpened", st.tbl[k].meta.id>>)]
       IN IF s.emits = st.emits THEN s
          ELSE [s EXCEPT !.repEmit = s.emits[Len(s.emits)]]

RECURSIVE OpenSolo(_, _)
OpenSolo(st, j) ==
  IF j > Len(st.created) THEN st
  ELSE LET o == st.created[j]
           k == IndexOfObj(st.tbl, o)
           parent == getVisibleParent(st.tbl, st.zoom, o)
       IN IF k # 0 /\ parent.kind # "cluster"
          THEN OpenSolo(OpenMarker(st, k), j + 1)
          ELSE OpenSolo(st, j + 1)

\* openVisibleMarkerPopups that opens nothing.
openVisibleMarkerPopups_Skips(st) == st

openVisibleMarkerPopups(st) ==
  IF ~st.layer THEN st ELSE OpenSolo(st, 1)

\* The parents of createdMarkers in first-seen order (a Set iterates in
\* insertion order).
RECURSIVE UniqueParents(_, _, _)
UniqueParents(st, j, acc) ==
  IF j > Len(st.created) THEN acc
  ELSE LET parent == getVisibleParent(st.tbl, st.zoom, st.created[j])
       IN IF parent.kind = "cluster" /\ \A i \in 1..Len(acc) : acc[i] # parent.key
          THEN UniqueParents(st, j + 1, Append(acc, parent.key))
          ELSE UniqueParents(st, j + 1, acc)

RECURSIVE OpenClusters(_, _)
OpenClusters(st, keys) ==
  IF keys = <<>> THEN st
  ELSE LET children == childMarkers(st, Head(keys), <<>>)
       IN IF children = <<>> THEN OpenClusters(st, Tail(keys))
          ELSE OpenClusters(AggregateOpen(st, Head(keys), children), Tail(keys))

openVisibleClusterPopups(st) ==
  IF ~st.layer THEN st ELSE OpenClusters(st, UniqueParents(st, 1, <<>>))

(***************************************************************************)
(* renderDiff                                                              *)
(***************************************************************************)
\* L.marker(...) makes a new object: one no marker of the table at the start
\* of the pass, and none made during it, is.
FreshObj(used) ==
  CHOOSE o \in 1..(Cardinality(used) + 1) :
    o \notin used /\ \A q \in 1..(o - 1) : q \in used

\* ApplyPost with the marker of a known id thrown away and made anew.
ApplyPost_Recreates(st, p) ==
  LET k == IndexOfId(st.tbl, p.id)
      o == FreshObj(st.used)
      m == [id |-> p.id, obj |-> o, latlng |-> p.latlng,
            content |-> markerHtml(p, st.clock), open |-> FALSE,
            autoPan |-> FALSE, meta |-> p]
  IN IF k = 0
     THEN [st EXCEPT !.tbl = Append(@, m), !.used = @ \cup {o}, !.added = @ \cup {o}]
     ELSE [st EXCEPT !.tbl = Append(SelectSeq(@, LAMBDA e : e.id # p.id), m),
                     !.used = @ \cup {o}, !.added = @ \cup {o},
                     !.removed = @ \cup {st.tbl[k].obj}, !.kept = @ \cup {p.id}]

\* ApplyPost without the content-change guard: every sighting writes.
ApplyPost_NoGuard(st, p) ==
  LET k == IndexOfId(st.tbl, p.id)
      o == FreshObj(st.used)
      m == [id |-> p.id, obj |-> o, latlng |-> p.latlng,
            content |-> markerHtml(p, st.clock), open |-> FALSE,
            autoPan |-> FALSE, meta |-> p]
  IN IF k = 0
     THEN [st EXCEPT !.tbl = Append(@, m), !.used = @ \cup {o}, !.added = @ \cup {o}]
     ELSE [st EXCEPT !.tbl[k] = [st.tbl[k] EXCEPT
                                   !.latlng = p.latlng,
                                   !.open = IF st.tbl[k].latlng # p.latlng THEN FALSE ELSE @,
                                   !.content = markerHtml(p, st.clock),
                                   !.meta = p],
                     !.kept = @ \cup {p.id},
                     !.writes = @ + 1]

\* ApplyPost that leaves the back-reference of a known marker as it was made.
ApplyPost_KeepsMeta(st, p) ==
  LET k == IndexOfId(st.tbl, p.id)
  IN IF p.latlng = Undefined THEN [st EXCEPT !.thrown = TRUE]
     ELSE IF k = 0
     THEN LET o == FreshObj(st.used)
              m == [id |-> p.id, obj |-> o, latlng |-> p.latlng,
                    content |-> markerHtml(p, st.clock), open |-> FALSE,
                    autoPan |-> FALSE, meta |-> p]
          IN [st EXCEPT !.tbl = Append(@, m), !.used = @ \cup {o},
                        !.added = @ \cup {o}]
     ELSE LET m == st.tbl[k]
              next == markerHtml(p, st.clock)
              cur == m.content
          IN [st EXCEPT
                !.tbl[k] = [m EXCEPT !.latlng = p.latlng,
                                     !.open = IF m.latlng # p.latlng THEN FALSE ELSE @,
                                     !.content = IF cur # next THEN next ELSE cur],
                !.moved = IF m.latlng # p.latlng THEN @ \cup {m.obj} ELSE @,
                !.kept = @ \cup {p.id},
                !.writes = IF cur # next THEN @ + 1 ELSE @]

\* The body of props.posts.forEach for one post.  Leaflet's LatLng throws
\* on an undefined coordinate, in L.marker and in setLatLng alike.
ApplyPost(st, p) ==
  LET k == IndexOfId(st.tbl, p.id)
  IN IF p.latlng = Undefined THEN [st EXCEPT !.thrown = TRUE]
     ELSE IF k = 0
     THEN LET o == FreshObj(st.used)
              m == [id |-> p.id, obj |-> o, latlng |-> p.latlng,
                    content |-> markerHtml(p, st.clock), open |-> FALSE,
                    autoPan |-> FALSE, meta |-> p]
          IN [st EXCEPT !.tbl = Append(@, m), !.used = @ \cup {o},
                        !.added = @ \cup {o}]
     ELSE LET m == st.tbl[k]
              next == markerHtml(p, st.clock)
              cur == m.content
          IN [st EXCEPT
                \* setLatLng: a marker that moves is taken off the layer and
                \* put back by the layer itself, which closes its popup
                !.tbl[k] = [m EXCEPT !.latlng = p.latlng,
                                     !.open = IF m.latlng # p.latlng THEN FALSE ELSE @,
                                     !.content = IF cur # next THEN next ELSE cur,
                                     !.meta = p],
                !.moved = IF m.latlng # p.latlng THEN @ \cup {m.obj} ELSE @,
                !.kept = @ \cup {p.id},
                !.writes = IF cur # next THEN @ + 1 ELSE @]

RECURSIVE ApplyPosts(_, _, _)
ApplyPosts(st, ps, i) ==
  IF i > Len(ps) \/ st.thrown THEN st ELSE ApplyPosts(ApplyPost(st, ps[i]), ps, i + 1)

\* RemoveStale that removes nothing.
RemoveStale_KeepsAll(st, nextIds) == st

\* for (const [id, m] of markerById.entries()) if (!nextIds.has(id)) ...
RemoveStale(st, nextIds) ==
  [st EXCEPT
     !.tbl = SelectSeq(@, LAMBDA m : m.id \in nextIds),
     !.removed = @ \cup {st.tbl[k].obj : k \in {j \in 1..Len(st.tbl) : st.tbl[j].id \notin nextIds}}]

\* Rederive that takes the last marker of the table for the representative.
Rederive_Last(st) ==
  LET cm == [k \in 1..Len(st.tbl) |-> st.tbl[k].obj]
  IN [st EXCEPT !.created = cm, !.rep = IF Len(cm) > 0 THEN cm[Len(cm)] ELSE 0]

\* createdMarkers = Array.from(markerById.values()); representativeMarker = createdMarkers[0] ?? null
\* No re-derivation: the list and the representative stay what they were.
Rederive_Skips(st) == st

Rederive(st) ==
  LET cm == [k \in 1..Len(st.tbl) |-> st.tbl[k].obj]
  IN [st EXCEPT !.created = cm, !.rep = IF Len(cm) > 0 THEN cm[1] ELSE 0]

\* Registration without the popupPersistAttached guard.
registerZoomHandlers_NoGuard(st) ==
  IF st.map THEN [st EXCEPT !.attached = TRUE, !.handlers = @ + 1] ELSE st

\* Lines 82-87: the three handlers are registered, in the order in which
\* they will run, unless they are marked as registered.
registerZoomHandlers(st) ==
  IF ~st.attached /\ st.map THEN [st EXCEPT !.attached = TRUE, !.handlers = @ + 1]
  ELSE st

\* A pass that an exception ends stops where it is thrown: what the forEach
\* did so far stays, and the layer has grouped the markers it was given.
renderDiff(st, ps) ==
  IF ~st.map THEN [st EXCEPT !.op = "renderDiff:nomap"]
  ELSE LET s0 == [st EXCEPT !.layer = TRUE, !.op = "renderDiff", !.passAt = st.clock]
           s1 == ApplyPosts(s0, ps, 1)
           s2 == RemoveStale(s1, Ids(ps))
           s3 == Recluster(Rederive(s2))
           s4 == openRepresentativePopup(s3)
           s5 == registerZoomHandlers(s4)
       IN IF s1.thrown THEN Recluster([s1 EXCEPT !.op = "renderDiff:threw"])
          ELSE openVisibleMarkerPopups(s5)

NoEvent == <<"none", 0>>

\* The component's state as one record, with an empty log.
Begin ==
  [map |-> map, layer |-> layer, tbl |-> markerById, cp |-> clusterPopups,
   created |-> createdMarkers, rep |-> representativeMarker, zoom |-> zoom,
   attached |-> popupPersistAttached, handlers |-> zoomHandlers, clock |-> clock,
   used |-> {markerById[k].obj : k \in 1..Len(markerById)},
   op |-> "", passAt |-> log.passAt, repeat |-> FALSE, added |-> {}, removed |-> {},
   moved |-> {}, kept |-> {}, writes |-> 0, cwrites |-> 0,
   binds |-> 0, opens |-> {}, copens |-> {}, reopens |-> 0, pans |-> 0,
   emits |-> <<>>, repEmit |-> NoEvent, fault |-> "none", thrown |-> FALSE]

\* The log kept in the state: the handler, the clock of the last reconcile pass,
\* whether the pass was given the list of the pass before it, the layer calls
\* of the handler (added, removed), the markers the layer took off and put
\* back because they moved, the content writes of the handler, the popups it
\* opened, its openPopup calls on an open popup, the times a popup made the
\* map pan, the events it emitted (how many, the one of the representative
\* pass, how many clusterOpened), the popups it bound, and what the cluster
\* nodes answered when asked for their children.
LogOf(st) ==
  [op |-> st.op, passAt |-> st.passAt, repeat |-> st.repeat, added |-> st.added,
   removed |-> st.removed, moved |-> st.moved, kept |-> st.kept, writes |-> st.writes,
   cwrites |-> st.cwrites, opens |-> st.opens, copens |-> st.copens,
   reopens |-> st.reopens, pans |-> st.pans,
   emits |-> Len(st.emits), repEmit |-> st.repEmit,
   cemits |-> Cardinality({i \in 1..Len(st.emits) : st.emits[i][1] = "clusterOpened"}),
   binds |-> st.binds, fault |-> st.fault]

Commit(st) ==
  /\ layer' = st.layer
  /\ markerById' = st.tbl
  /\ clusterPopups' = st.cp
  /\ createdMarkers' = st.created
  /\ representativeMarker' = st.rep
  /\ popupPersistAttached' = st.attached
  /\ zoomHandlers' = st.handlers
  /\ log' = LogOf(st)

NoLog ==
  [op |-> "", passAt |-> 0, repeat |-> FALSE, added |-> {}, removed |-> {}, moved |-> {},
   kept |-> {}, writes |-> 0, cwrites |-> 0, opens |-> {}, copens |-> {}, reopens |-> 0,
   pans |-> 0, emits |-> 0, repEmit |-> NoEvent, cemits |-> 0, binds |-> 0,
   fault |-> "none"]

MarkerInit ==
  /\ phase = "setup"
  /\ map \in BOOLEAN
  /\ posts = <<>>
  /\ clock = 0
  /\ zoom = 0
  /\ layer = FALSE
  /\ markerById = <<>>
  /\ createdMarkers = <<>>
  /\ representativeMarker = 0
  /\ popupPersistAttached = FALSE
  /\ zoomHandlers = 0
  /\ clusterPopups = [key \in ClusterKeys |-> NoPopup]
  /\ log = NoLog

\* onMounted
Mount ==
  /\ phase = "setup"
  /\ phase' = "mounted"
  /\ Commit(renderDiff(Begin, posts))
  /\ UNCHANGED <<map, posts, clock, zoom>>
  /\ UNCHANGED <<gateVars, fetchVars>>

\* watch(() => props.posts): the parent hands over a new list
PostsChangeWith(ps, f) ==
  /\ phase = "mounted"
  /\ posts' = ps
  /\ Commit(renderDiff([Begin EXCEPT !.repeat = (map /\ ps = posts), !.fault = f], ps))
  /\ UNCHANGED <<phase, map, clock, zoom>>
  /\ UNCHANGED <<gateVars, fetchVars>>

\* The same with the layer as the library provides it.
PostsChange(ps) == PostsChangeWith(ps, "none")

\* watch(() => props.map): the map becomes available
MapChange ==
  /\ phase = "mounted"
  /\ ~map
  /\ map' = TRUE
  /\ Commit(renderDiff([Begin EXCEPT !.map = TRUE], posts))
  /\ UNCHANGED <<phase, posts, clock, zoom>>
  /\ UNCHANGED <<gateVars, fetchVars>>

\* The registered handlers run in the order they were registered, n times
\* the three of them.
RECURSIVE RunZoomHandlers(_, _)
RunZoomHandlers(st, n) ==
  IF n = 0 THEN st
  ELSE RunZoomHandlers(
         openVisibleClusterPopups(openVisibleMarkerPopups(openRepresentativePopup(st))),
         n - 1)

\* The map's zoomend event: the layer regroups its markers, then the
\* registered handlers run.
ZoomEndWith(z, f) ==
  /\ map
  /\ z # zoom
  /\ zoom' = z
  /\ Commit(RunZoomHandlers(
              Recluster([Begin EXCEPT !.zoom = z, !.op = "zoomend", !.fault = f]),
              zoomHandlers))
  /\ UNCHANGED <<phase, map, posts, clock>>
  /\ UNCHANGED <<gateVars, fetchVars>>

\* The same with the layer as the library provides it.
ZoomEnd(z) == ZoomEndWith(z, "none")

\* A minute passes.
Tick ==
  /\ clock < MaxClock
  /\ clock' = clock + 1
  /\ log' = [log EXCEPT !.op = "tick"]
  /\ UNCHANGED <<phase, map, posts, zoom, layer, markerById, createdMarkers,
                 representativeMarker, popupPersistAttached, zoomHandlers, clusterPopups>>
  /\ UNCHANGED <<gateVars, fetchVars>>

\* Unregistering that never happens.
offZoomHandlers_Never(m, attached, handlers) == handlers

\* if (props.map && popupPersistAttached) map.off('zoomend', ...) three times
offZoomHandlers(m, attached, handlers) == IF m /\ attached THEN 0 ELSE handlers

\* onBeforeUnmount
Unmount ==
  /\ phase = "mounted"
  /\ phase' = "unmounted"
  /\ layer' = FALSE
  /\ markerById' = <<>>
  /\ createdMarkers' = <<>>
  /\ representativeMarker' = 0
  /\ popupPersistAttached' = FALSE
  /\ zoomHandlers' = offZoomHandlers(map, popupPersistAttached, zoomHandlers)
  \* map.removeLayer(layer) takes every node off the map
  /\ clusterPopups' = IF layer /\ map THEN [key \in ClusterKeys |-> NoPopup] ELSE clusterPopups
  /\ log' = [NoLog EXCEPT !.op = "unmount", !.passAt = log.passAt,
                          !.removed = IF layer /\ map
                                      THEN {markerById[k].obj : k \in 1..Len(markerById)}
                                      ELSE {}]
  /\ UNCHANGED <<map, posts, clock, zoom>>
  /\ UNCHANGED <<gateVars, fetchVars>>

Next ==
  \/ Mount
  \/ \E ps \in PostLists : PostsChange(ps)
  \/ MapChange
  \/ \E z \in 0..MaxZoom : ZoomEnd(z)
  \/ Tick
  \/ Unmount

(***************************************************************************)
(* useNearby.ts: the motion gate.                                          *)
(* Positions lie on one meridian and are given in metres along it, so the  *)
(* haversine distance of two of them is the difference of the two.  Time   *)
(* is in milliseconds; a pending timeout fires when it is due, before time *)
(* moves on.                                                               *)
(***************************************************************************)
threshold == 50
debounceMs == 400

MaxArms == 4       \* setTimeout calls in a run
Step == 200        \* the longest the clock moves at once, in ms

GateLats == {0, 49, 50, 99}
GateLng == 0

Abs(x) == IF x < 0 THEN 0 - x ELSE x

\* R * c, with c = |lat2 - lat1| in radians on a meridian
haversineMeters(lat1, lng1, lat2, lng2) == Abs(lat2 - lat1)

GateState ==
  [threshold |-> distanceThresholdMeters, lastLat |-> lastLat, lastLng |-> lastLng, timer |-> timer, timers |-> timers,
   nextTimerId |-> nextTimerId]

\* movedEnough with a strict comparison.
movedEnough_Strict(g, lat, lng) ==
  IF g.lastLat = Null \/ g.lastLng = Null THEN TRUE
  ELSE haversineMeters(g.lastLat, g.lastLng, lat, lng) > g.threshold

movedEnough(g, lat, lng) ==
  IF g.lastLat = Null \/ g.lastLng = Null THEN TRUE
  ELSE haversineMeters(g.lastLat, g.lastLng, lat, lng) >= g.threshold

\* window.clearTimeout(id)
clearTimeout(ts, id) == {t \in ts : t.id # id}

\* onCoordsChange that arms a timer without cancelling the pending one.
onCoordsChange_Stacks(g, lat, lng) ==
  IF ~movedEnough(g, lat, lng) THEN g
  ELSE [g EXCEPT !.lastLat = lat, !.lastLng = lng,
                 !.timers = @ \cup {[id |-> g.nextTimerId, left |-> debounceMs]},
                 !.timer = g.nextTimerId,
                 !.nextTimerId = @ + 1]

\* onCoordsChange that restarts a pending timer before it looks at the distance.
onCoordsChange_Extends(g, lat, lng) ==
  LET cleared == IF g.timer # 0 THEN clearTimeout(g.timers, g.timer) ELSE g.timers
  IN IF ~movedEnough(g, lat, lng)
     THEN IF g.timer = 0 THEN g
          ELSE [g EXCEPT !.timers = cleared \cup {[id |-> g.nextTimerId, left |-> debounceMs]},
                         !.timer = g.nextTimerId,
                         !.nextTimerId = @ + 1]
     ELSE [g EXCEPT !.lastLat = lat, !.lastLng = lng,
                    !.timers = cleared \cup {[id |-> g.nextTimerId, left |-> debounceMs]},
                    !.timer = g.nextTimerId,
                    !.nextTimerId = @ + 1]

\* onCoordsChange that arms a timeout of no delay.
onCoordsChange_NoDelay(g, lat, lng) ==
  IF ~movedEnough(g, lat, lng) THEN g
  ELSE LET cleared == IF g.timer # 0 THEN clearTimeout(g.timers, g.timer) ELSE g.timers
       IN [g EXCEPT !.lastLat = lat, !.lastLng = lng,
                    !.timers = cleared \cup {[id |-> g.nextTimerId, left |-> 0]},
                    !.timer = g.nextTimerId,
                    !.nextTimerId = @ + 1]

onCoordsChange(g, lat, lng) ==
  IF ~movedEnough(g, lat, lng) THEN g
  ELSE LET cleared == IF g.timer # 0 THEN clearTimeout(g.timers, g.timer) ELSE g.timers
       IN [g EXCEPT !.lastLat = lat, !.lastLng = lng,
                    !.timers = cleared \cup {[id |-> g.nextTimerId, left |-> debounceMs]},
                    !.timer = g.nextTimerId,
                    !.nextTimerId = @ + 1]

\* reset that forgets the timer id without cancelling the timeout.
reset_Forgets(g) ==
  [g EXCEPT !.lastLat = Null, !.lastLng = Null, !.timer = 0]

reset(g) ==
  [g EXCEPT !.lastLat = Null, !.lastLng = Null,
            !.timers = IF g.timer # 0 THEN clearTimeout(@, g.timer) ELSE @,
            !.timer = 0]

CommitGate(g) ==
  /\ lastLat' = g.lastLat
  /\ lastLng' = g.lastLng
  /\ timer' = g.timer
  /\ timers' = g.timers
  /\ nextTimerId' = g.nextTimerId

NoGateLog ==
  [op |-> "", lat |-> Null, had |-> FALSE, dist |-> 0, replaced |-> FALSE,
   afterReset |-> FALSE, resetWas |-> Null, hadTimer |-> FALSE, burst |-> 0, waited |-> 0]

ElapsedCap == debounceMs + Step

\* The composable just made: no sample, no timer.
GateFresh ==
  /\ lastLat = Null /\ lastLng = Null /\ timer = 0 /\ timers = {}
  /\ nextTimerId = 1 /\ fetchCalls = 0
  /\ gateGhost = [elapsed |-> 0, burst |-> 0, bursts |-> 0, dropped |-> 0,
                  resetPending |-> FALSE, resetWas |-> Null, resetHadTimer |-> FALSE]
  /\ gateLog = NoGateLog

\* useNearby() with the default threshold, which is also the one the Home
\* view passes.
GateIdle == distanceThresholdMeters = threshold /\ GateFresh

\* A call of onCoordsChange(lat, lng, fetchFn), as far as the gate goes.
EvaluateCall(lat) ==
  /\ nextTimerId <= MaxArms
  /\ LET g == onCoordsChange(GateState, lat, GateLng)
         armed == g.nextTimerId # nextTimerId
     IN /\ CommitGate(g)
        /\ gateGhost' =
             IF ~armed THEN [gateGhost EXCEPT !.resetPending = FALSE]
             ELSE [gateGhost EXCEPT
                     !.elapsed = 0,
                     !.burst = IF timers = {} THEN 1 ELSE @ + 1,
                     !.bursts = IF timers = {} THEN @ + 1 ELSE @,
                     !.resetPending = FALSE]
        /\ gateLog' =
             [NoGateLog EXCEPT
                !.op = "evaluate", !.lat = lat,
                !.had = (lastLat # Null),
                !.dist = IF lastLat = Null THEN 0
                         ELSE haversineMeters(lastLat, lastLng, lat, GateLng),
                !.replaced = (armed /\ timers # {}),
                !.afterReset = gateGhost.resetPending,
                !.resetWas = IF gateGhost.resetPending THEN gateGhost.resetWas ELSE Null,
                !.hadTimer = gateGhost.resetPending /\ gateGhost.resetHadTimer]
  /\ UNCHANGED <<distanceThresholdMeters, fetchCalls>>

\* A call of onCoordsChange with a trigger function of no concern here.
Evaluate(lat) ==
  /\ EvaluateCall(lat)
  /\ UNCHANGED <<markerVars, fetchVars>>

\* A call of reset().
Reset ==
  /\ CommitGate(reset(GateState))
  /\ gateGhost' = [gateGhost EXCEPT !.dropped = IF timers # {} THEN @ + 1 ELSE @,
                                    !.burst = 0,
                                    !.resetPending = TRUE,
                                    !.resetWas = lastLat,
                                    !.resetHadTimer = (timers # {})]
  /\ gateLog' = [NoGateLog EXCEPT !.op = "reset"]
  /\ UNCHANGED <<distanceThresholdMeters, fetchCalls>>
  /\ UNCHANGED <<markerVars, fetchVars>>

\* The callback of a due timeout, as far as the gate goes: fetchFn();
\* timer = null.
FireCall ==
  /\ \E t \in timers :
       /\ t.left = 0
       /\ timers' = timers \ {t}
  /\ fetchCalls' = fetchCalls + 1
  /\ timer' = 0
  /\ gateGhost' = [gateGhost EXCEPT !.burst = 0]
  /\ gateLog' = [NoGateLog EXCEPT !.op = "fire", !.burst = gateGhost.burst,
                                  !.waited = gateGhost.elapsed]
  /\ UNCHANGED <<distanceThresholdMeters, lastLat, lastLng, nextTimerId>>

\* The callback of a due timeout with a trigger function of no concern here.
Fire ==
  /\ FireCall
  /\ UNCHANGED <<markerVars, fetchVars>>

MinLeft == CHOOSE d \in {t.left : t \in timers} : \A t \in timers : d <= t.left

\* Time passes, up to the next due timeout.
GateTick ==
  /\ \A t \in timers : t.left > 0
  /\ LET d == IF timers # {} /\ MinLeft < Step THEN MinLeft ELSE Step
     IN /\ timers' = {[t EXCEPT !.left = @ - d] : t \in timers}
        /\ gateGhost' = [gateGhost EXCEPT
                           !.elapsed = IF @ + d > ElapsedCap THEN ElapsedCap ELSE @ + d]
  /\ gateLog' = [NoGateLog EXCEPT !.op = "tick"]
  /\ UNCHANGED <<distanceThresholdMeters, lastLat, lastLng, timer, nextTimerId, fetchCalls>>
  /\ UNCHANGED <<markerVars, fetchVars>>

(***************************************************************************)
(* The Home view's fetchNearby.  A call reads the coordinates; without     *)
(* them it only alerts; with them it sends a request and returns to the    *)
(* event loop.  Requests are numbered in the order they are sent, and the  *)
(* server may answer them in any order.  The part of fetchNearby after the *)
(* await runs when the answer arrives.                                     *)
(***************************************************************************)
MaxRequests == 3   \* requests sent in a run
MaxItems == 1      \* longest list a response carries

FetchLists == SeqsUpTo(Post, MaxItems)

\* What comes back: fetch() rejects; the body does not parse; the body is
\* null, an object without items, or an object with items; ok is res.ok.
Responses ==
  {[kind |-> k, ok |-> o, items |-> <<>>] :
     k \in {"reject", "badjson", "null", "noitems"}, o \in BOOLEAN}
  \cup {[kind |-> "items", ok |-> o, items |-> l] : o \in BOOLEAN, l \in FetchLists}

AlertNoCoords == "no coords"
AlertFetchError == "fetch error"

\* The catch block, and the branch for a status that is not OK: log and alert.
fetchFailed(cur) ==
  [nearby |-> cur.nearby, assigned |-> FALSE, alert |-> AlertFetchError,
   raised |-> FALSE]

\* A failure handler that empties the list it could not refresh.
fetchNearbyResume_Clears(cur, resp) ==
  IF resp.kind \in {"reject", "badjson", "null"} \/ ~resp.ok
  THEN [nearby |-> <<>>, assigned |-> TRUE, alert |-> AlertFetchError, raised |-> FALSE]
  ELSE [nearby |-> resp.items, assigned |-> TRUE, alert |-> cur.alert, raised |-> FALSE]

\* A success branch that adds the items to the list instead of replacing it
\* and keeps the list when there is no items field.
fetchNearbyResume_Merges(cur, resp) ==
  IF resp.kind \in {"reject", "badjson", "null"} \/ ~resp.ok THEN fetchFailed(cur)
  ELSE [nearby |-> IF resp.kind = "noitems" THEN cur.nearby
                   ELSE SelectSeq(cur.nearby, LAMBDA p : p.id \notin Ids(resp.items))
                          \o resp.items,
        assigned |-> TRUE, alert |-> cur.alert, raised |-> FALSE]

\* fetchNearby from the await on.  assigned says that nearby.value was
\* written, raised that the promise of fetchNearby was rejected.
fetchNearbyResume(cur, resp) ==
  IF resp.kind = "reject" THEN fetchFailed(cur)
  ELSE IF resp.kind = "badjson" THEN fetchFailed(cur)
  ELSE IF ~resp.ok THEN fetchFailed(cur)
  \* data.items on a null body throws inside the try block
  ELSE IF resp.kind = "null" THEN fetchFailed(cur)
  ELSE [nearby |-> IF resp.kind = "noitems" THEN <<>> ELSE resp.items,
        assigned |-> TRUE, alert |-> cur.alert, raised |-> FALSE]

\* The log of the last fetch handler; latestSeq and latestItems are the
\* highest-numbered request answered with a list so far, and its list.
NoFetchLog ==
  [op |-> "", seq |-> 0, kind |-> "", ok |-> FALSE, raised |-> FALSE,
   latestSeq |-> 0, latestItems |-> <<>>]

(***************************************************************************)
(* stores/auth.ts and the router's guard.  A Pinia getter is a computed    *)
(* value: it is evaluated when it is read after the state it read last     *)
(* time has changed, and its value is kept until then.  Date.now() is no   *)
(* part of that state.  Time is counted in units from 1.                   *)
(***************************************************************************)
MaxNow == 3        \* the clock of Date.now() runs to here
MaxRedirects == 3  \* redirects followed before a navigation is given up

ExpiresAts == {Null, 0} \cup (2..MaxNow)

AuthStates == [token : BOOLEAN, expiresAt : ExpiresAts]

\* state: () => ({ ..., token: null, expiresAt: null })
NoAuth == [token |-> FALSE, expiresAt |-> Null]

Paths == {"/", "/login", "/x"}

\* isAuthenticated(state): !state.expiresAt holds of null and of 0
isAuthenticated(a, t) ==
  IF ~a.token \/ a.expiresAt = Null \/ a.expiresAt = 0 THEN FALSE
  ELSE t < a.expiresAt

NoCache == [fresh |-> FALSE, value |-> FALSE]

\* Reading auth.isAuthenticated: the kept value, or a new evaluation.
readIsAuthenticated(c, a, t) ==
  IF c.fresh THEN c ELSE [fresh |-> TRUE, value |-> isAuthenticated(a, t)]

\* A guard that sends every visitor of /login to /.
beforeEach_AlwaysHome(path, authd) ==
  IF path # "/login" /\ ~authd THEN [kind |-> "redirect", path |-> "/login", next |-> path]
  ELSE IF path = "/login" THEN [kind |-> "redirect", path |-> "/", next |-> ""]
  ELSE [kind |-> "allow", path |-> path, next |-> ""]

\* router.beforeEach((to) => ...)
beforeEach(path, authd) ==
  LET isPublic == path = "/login"
  IN IF ~isPublic /\ ~authd THEN [kind |-> "redirect", path |-> "/login", next |-> path]
     ELSE IF isPublic /\ authd THEN [kind |-> "redirect", path |-> "/", next |-> ""]
     ELSE [kind |-> "allow", path |-> path, next |-> ""]

\* The router runs the guard on the target and again on every redirect it
\* returns, until a target is allowed.
RECURSIVE Settle(_, _, _, _)
Settle(path, next, authd, n) ==
  LET r == beforeEach(path, authd)
  IN IF r.kind = "allow"
     THEN [path |-> path, next |-> next, redirects |-> n, settled |-> TRUE]
     ELSE IF n >= MaxRedirects
     THEN [path |-> path, next |-> next, redirects |-> n, settled |-> FALSE]
     ELSE Settle(r.path, r.next, authd, n + 1)

NoRoute == [path |-> "", next |-> ""]

NoNavLog ==
  [op |-> "", to |-> "", redirects |-> 0, settled |-> TRUE, reported |-> FALSE,
   actual |-> FALSE]

NavIdle ==
  /\ auth = NoAuth /\ now = 1 /\ isAuthenticatedCache = NoCache
  /\ route = NoRoute /\ navLog = NoNavLog

\* A navigation to path p: the guard reads auth.isAuthenticated.
Navigate(p) ==
  /\ LET c == readIsAuthenticated(isAuthenticatedCache, auth, now)
         r == Settle(p, "", c.value, 0)
     IN /\ isAuthenticatedCache' = c
        /\ route' = [path |-> r.path, next |-> r.next]
        /\ navLog' = [op |-> "navigate", to |-> p, redirects |-> r.redirects,
                      settled |-> r.settled, reported |-> c.value,
                      actual |-> isAuthenticated(auth, now)]
  /\ UNCHANGED <<auth, now, postVars>>
  /\ UNCHANGED <<triggerLog, homeView, followVars>>
  /\ UNCHANGED <<coords, nearby, inflight, nextSeq, alertMessage, fetchLog, zVars>>
  /\ UNCHANGED <<markerVars, gateVars>>

\* login / register succeed: the store takes the token and the expiry of
\* the response; the getter is evaluated anew once what it read changed.
LoginOk(e) ==
  /\ auth' = [token |-> TRUE, expiresAt |-> e]
  /\ isAuthenticatedCache' = IF auth' # auth THEN NoCache ELSE isAuthenticatedCache
  /\ navLog' = [navLog EXCEPT !.op = "login"]
  /\ UNCHANGED <<now, route, postVars>>
  /\ UNCHANGED <<triggerLog, homeView, followVars>>
  /\ UNCHANGED <<coords, nearby, inflight, nextSeq, alertMessage, fetchLog, zVars>>
  /\ UNCHANGED <<markerVars, gateVars>>

\* logout
Logout ==
  /\ auth' = NoAuth
  /\ isAuthenticatedCache' = IF auth' # auth THEN NoCache ELSE isAuthenticatedCache
  /\ navLog' = [navLog EXCEPT !.op = "logout"]
  /\ UNCHANGED <<now, route, postVars>>
  /\ UNCHANGED <<triggerLog, homeView, followVars>>
  /\ UNCHANGED <<coords, nearby, inflight, nextSeq, alertMessage, fetchLog, zVars>>
  /\ UNCHANGED <<markerVars, gateVars>>

\* Time passes.
ClockTick ==
  /\ now < MaxNow
  /\ now' = now + 1
  /\ navLog' = [navLog EXCEPT !.op = "tick"]
  /\ UNCHANGED <<auth, isAuthenticatedCache, route, postVars>>
  /\ UNCHANGED <<triggerLog, homeView, followVars>>
  /\ UNCHANGED <<coords, nearby, inflight, nextSeq, alertMessage, fetchLog, zVars>>
  /\ UNCHANGED <<markerVars, gateVars>>

(***************************************************************************)
(* submitPost of the Home view.                                            *)
(***************************************************************************)
MaxMessage == 280

MaxSubmits == 2    \* post requests sent in a run

\* A message is some blanks, a text that neither starts nor ends with a
\* blank, and some blanks: the three lengths.
NoMessage == [lead |-> 0, len |-> 0, trail |-> 0]

PostMessages ==
  {[lead |-> a, len |-> n, trail |-> b] :
     a \in {0, 1}, n \in {0, MaxMessage, MaxMessage + 1}, b \in {0, 1}}

\* message.value.trim().length
trimmedLength(m) == m.len

\* The length of the message as it was typed.
rawLength(m) == m.lead + m.len + m.trail

AlertNotLoggedIn == "not logged in"
AlertMessageRequired == "message required"
AlertMessageTooLong == "message too long"
AlertNoPosition == "no position"
AlertPostFailed == "post failed"
AlertPostError == "post error"

\* The checks without the trim.
submitPostCheck_NoTrim(authd, m, c) ==
  IF ~authd THEN AlertNotLoggedIn
  ELSE IF rawLength(m) = 0 THEN AlertMessageRequired
  ELSE IF rawLength(m) > MaxMessage THEN AlertMessageTooLong
  ELSE IF c = Null THEN AlertNoPosition
  ELSE ""

\* submitPost up to isPosting.value = true: the alert it raises, or none.
submitPostCheck(authd, m, c) ==
  IF ~authd THEN AlertNotLoggedIn
  ELSE IF trimmedLength(m) = 0 THEN AlertMessageRequired
  ELSE IF trimmedLength(m) > MaxMessage THEN AlertMessageTooLong
  ELSE IF c = Null THEN AlertNoPosition
  ELSE ""

\* What comes back: fetch() rejects, or an answer whose status is OK or not
\* and whose body parses or not.
PostResponses ==
  {[kind |-> "reject", ok |-> FALSE, json |-> FALSE]}
  \cup {[kind |-> "answer", ok |-> o, json |-> j] : o \in BOOLEAN, j \in BOOLEAN}

\* A completion whose error branch returns with the flag still set.
submitPostResume_SticksOnError(cur, resp) ==
  IF resp.kind = "reject"
  THEN [message |-> cur.message, isPosting |-> FALSE, alert |-> AlertPostError,
        refetch |-> FALSE]
  ELSE IF ~resp.ok
  THEN [message |-> cur.message, isPosting |-> cur.isPosting, alert |-> AlertPostFailed,
        refetch |-> FALSE]
  ELSE [message |-> NoMessage, isPosting |-> FALSE, alert |-> cur.alert, refetch |-> TRUE]

\* submitPost from the await on: catch for a rejected fetch, the !res.ok
\* branch, the success path; finally clears the flag on each.  A body that
\* does not parse counts as null.
submitPostResume(cur, resp) ==
  IF resp.kind = "reject"
  THEN [message |-> cur.message, isPosting |-> FALSE, alert |-> AlertPostError,
        refetch |-> FALSE]
  ELSE IF ~resp.ok
  THEN [message |-> cur.message, isPosting |-> FALSE, alert |-> AlertPostFailed,
        refetch |-> FALSE]
  ELSE [message |-> NoMessage, isPosting |-> FALSE, alert |-> cur.alert, refetch |-> TRUE]

NoPostLog ==
  [op |-> "", reported |-> FALSE, len |-> 0, hadCoords |-> FALSE, sent |-> 0,
   outcome |-> ""]

PostIdle ==
  /\ message = NoMessage /\ isPosting = FALSE /\ postInflight = {}
  /\ postLog = NoPostLog

(***************************************************************************)
(* useFollow.ts and the map view of the Home view.  The view is a centre   *)
(* and a zoom level.  Leaflet's setView fires zoomstart when it changes    *)
(* the zoom level and not when it only pans; the handlers registered by    *)
(* attachMapFollowHandlers run on the user's dragstart and on every        *)
(* zoomstart.                                                              *)
(***************************************************************************)
DefaultZoom == 15

\* The follow state as one record.
FollowState == [map |-> map, following |-> following, center |-> viewCenter, zoom |-> zoom]

\* The dragstart and zoomstart handlers: following.value = false
followOff(v) == [v EXCEPT !.following = FALSE]

\* map.setView(pos, z)
setView(v, pos, z) ==
  LET moved == [v EXCEPT !.center = pos, !.zoom = z]
  IN IF z # v.zoom THEN followOff(moved) ELSE moved

\* updateUserLocationOnMap that moves the view whatever the flag says.
updateUserLocationOnMap_Always(v, lat) ==
  IF ~v.map \/ lat = Null THEN v
  ELSE setView(v, lat, IF v.zoom # 0 THEN v.zoom ELSE DefaultZoom)

\* updateUserLocationOnMap, as far as the view goes:
\* if (following.value) map.setView(pos, map.getZoom() || 15)
updateUserLocationOnMap(v, lat) ==
  IF ~v.map \/ lat = Null THEN v
  ELSE IF v.following THEN setView(v, lat, IF v.zoom # 0 THEN v.zoom ELSE DefaultZoom)
  ELSE v

\* recenter that moves the view and leaves the flag as it is.
recenter_KeepsFlag(v, lat) == setView(v, lat, v.zoom)

\* recenter(map, lat, lng): following.value = true;
\* map.setView(pos, zoom ?? map.getZoom() ?? 15) with no zoom given
recenter(v, lat) == setView([v EXCEPT !.following = TRUE], lat, v.zoom)

\* recenterToUser
recenterToUser(v, lat) ==
  IF ~v.map THEN v
  ELSE IF lat = Null THEN v
  ELSE recenter(v, lat)

NoFollowLog == [op |-> "", was |-> TRUE, from |-> Null, zoomWas |-> 0]

FollowLogOf(op) == [op |-> op, was |-> following, from |-> viewCenter, zoomWas |-> zoom]

\* useFollow(): following = ref(true); no map yet.
FollowIdle == following = TRUE /\ viewCenter = Null /\ followLog = NoFollowLog

\* No trigger yet.
NoTriggerLog == [op |-> "", payload |-> 0, triggers |-> 0, calls |-> 0, withCoords |-> 0]

\* The view after setup: no position, no list, nothing in flight.
FetchFresh ==
  /\ coords = Null /\ nearby = <<>> /\ inflight = {} /\ nextSeq = 1
  /\ alertMessage = "" /\ fetchLog = NoFetchLog
  /\ triggerLog = NoTriggerLog
  /\ homeView = "mounted"
  /\ FollowIdle

\* The same with nobody logged in and an empty message.
FetchIdle == FetchFresh /\ NavIdle /\ PostIdle

\* The geolocation watcher delivers a position.
CoordsArrive ==
  /\ coords = Null
  /\ coords' = 0
  /\ fetchLog' = [fetchLog EXCEPT !.op = "coords"]
  /\ UNCHANGED <<nearby, inflight, nextSeq, alertMessage>>
  /\ UNCHANGED <<markerVars, gateVars, zVars, homeVars>>

\* fetchNearby up to the await.
FetchNearbyCall ==
  /\ nextSeq <= MaxRequests
  /\ IF coords = Null
     THEN /\ alertMessage' = AlertNoCoords
          /\ fetchLog' = [fetchLog EXCEPT !.op = "nocoords"]
          /\ UNCHANGED <<inflight, nextSeq>>
     ELSE /\ inflight' = inflight \cup {nextSeq}
          /\ nextSeq' = nextSeq + 1
          /\ fetchLog' = [fetchLog EXCEPT !.op = "sent", !.seq = nextSeq]
          /\ UNCHANGED alertMessage
  /\ UNCHANGED <<coords, nearby>>

\* A call of fetchNearby, whoever makes it, once the view's children are
\* mounted.
FetchNearby ==
  /\ phase = "mounted"
  /\ FetchNearbyCall
  /\ UNCHANGED <<markerVars, gateVars, zVars, homeVars>>

\* Respond whose failure branch sends the request again.
Respond_Retries(seq, resp) ==
  /\ seq \in inflight
  /\ LET r == fetchNearbyResume([nearby |-> nearby, alert |-> alertMessage], resp)
         retry == ~r.assigned /\ nextSeq <= MaxRequests
     IN /\ inflight' = IF retry THEN (inflight \ {seq}) \cup {nextSeq} ELSE inflight \ {seq}
        /\ nextSeq' = IF retry THEN nextSeq + 1 ELSE nextSeq
        /\ nearby' = r.nearby
        /\ alertMessage' = r.alert
        /\ fetchLog' = [fetchLog EXCEPT !.op = IF r.assigned THEN "loaded" ELSE "failed",
                                        !.seq = seq, !.kind = resp.kind, !.ok = resp.ok]
        /\ posts' = IF r.assigned THEN r.nearby ELSE posts
  /\ UNCHANGED <<phase, map, clock, zoom, coords, layer, markerById, clusterPopups,
                 createdMarkers, representativeMarker, popupPersistAttached,
                 zoomHandlers, log>>
  /\ UNCHANGED <<gateVars, zVars, homeVars>>

\* The answer to request seq arrives and fetchNearby runs to its end; a
\* written nearby reaches MarkerLayer as props.posts and its watcher runs
\* renderDiff.
Respond(seq, resp) ==
  /\ seq \in inflight
  /\ inflight' = inflight \ {seq}
  /\ LET r == fetchNearbyResume([nearby |-> nearby, alert |-> alertMessage], resp)
         newer == r.assigned /\ seq > fetchLog.latestSeq
     IN /\ nearby' = r.nearby
        /\ alertMessage' = r.alert
        /\ fetchLog' = [op |-> IF resp.kind \in {"reject", "badjson", "null"} \/ ~resp.ok
                               THEN "failed" ELSE "loaded",
                        seq |-> seq, kind |-> resp.kind, ok |-> resp.ok,
                        raised |-> r.raised,
                        latestSeq |-> IF newer THEN seq ELSE fetchLog.latestSeq,
                        latestItems |-> IF newer THEN r.nearby ELSE fetchLog.latestItems]
        /\ IF r.assigned
           THEN /\ posts' = r.nearby
                /\ Commit(renderDiff([Begin EXCEPT !.repeat = (map /\ r.nearby = posts)],
                                     r.nearby))
           ELSE UNCHANGED <<posts, layer, markerById, clusterPopups, createdMarkers,
                            representativeMarker, popupPersistAttached, zoomHandlers, log>>
  /\ UNCHANGED <<phase, map, clock, zoom, coords, nextSeq>>
  /\ UNCHANGED <<gateVars, zVars, homeVars>>

\* The alert's timeout clears the message.
AlertExpire ==
  /\ alertMessage # ""
  /\ alertMessage' = ""
  /\ fetchLog' = [fetchLog EXCEPT !.op = "alertexpire"]
  /\ UNCHANGED <<coords, nearby, inflight, nextSeq>>
  /\ UNCHANGED <<markerVars, gateVars, zVars, homeVars>>

(***************************************************************************)
(* The Home view's popupopen / popupclose handlers (onMapReady).  A popup  *)
(* has one container element, made when it first opens and kept while it   *)
(* is closed; the map fires popupopen when a closed popup opens and        *)
(* popupclose when an open one closes.  A pointerdown or click on an open  *)
(* popup's container runs the listeners registered on it for that event.   *)
(***************************************************************************)
InitialPopupZ == 10000

MaxZAssign == 5    \* z-index assignments in a run
MaxSurfaces == 2   \* popup containers

SurfaceIds == 1..MaxSurfaces
PointerEvents == {"pointerdown", "click"}

NoSurface == [open |-> FALSE, z |-> 0, listeners |-> {}]

\* The view's state as one record: the counter, the WeakMap, the containers,
\* the closures made so far and the z-indexes assigned so far.
ZBegin ==
  [next |-> nextPopupZ, handlers |-> popupHandlers, surfaces |-> surfaces,
   made |-> zLog.made, assigned |-> zLog.assigned]

\* bringToFront that writes the counter without advancing it.
bringToFront_SameZ(v, s) ==
  [v EXCEPT !.surfaces[s].z = v.next,
            !.assigned = Append(@, <<s, v.next>>)]

\* elc.style.zIndex = String(nextPopupZ++)
bringToFront(v, s) ==
  [v EXCEPT !.surfaces[s].z = v.next,
            !.next = @ + 1,
            !.assigned = Append(@, <<s, v.next>>)]

\* The popupopen handler: raise the container, make a closure, remember it
\* and register it for both pointer events.
popupopen(v, s) ==
  LET v1 == bringToFront(v, s)
      h == v.made + 1
  IN [v1 EXCEPT !.made = h,
                !.handlers[s] = h,
                !.surfaces[s].listeners = @ \cup {<<e, h>> : e \in PointerEvents}]

\* A popupclose handler that forgets the closure but leaves it registered.
popupclose_Leaks(v, s) ==
  IF v.handlers[s] = 0 THEN v ELSE [v EXCEPT !.handlers[s] = 0]

\* The popupclose handler: unregister the remembered closure and forget it.
popupclose(v, s) ==
  LET handler == v.handlers[s]
  IN IF handler = 0 THEN v
     ELSE [v EXCEPT !.surfaces[s].listeners = @ \ {<<e, handler>> : e \in PointerEvents},
                    !.handlers[s] = 0]

\* The listeners of the container for one event run, each a bringToFront.
RECURSIVE Dispatch(_, _, _)
Dispatch(v, s, n) ==
  IF n = 0 THEN v ELSE Dispatch(bringToFront(v, s), s, n - 1)

ZCommit(v, op, s) ==
  /\ nextPopupZ' = v.next
  /\ popupHandlers' = v.handlers
  /\ surfaces' = v.surfaces
  /\ zLog' = [op |-> op, surface |-> s, made |-> v.made, assigned |-> v.assigned]

ZIdle ==
  /\ nextPopupZ = InitialPopupZ
  /\ popupHandlers = [s \in SurfaceIds |-> 0]
  /\ surfaces = [s \in SurfaceIds |-> NoSurface]
  /\ zLog = [op |-> "", surface |-> 0, made |-> 0, assigned |-> <<>>]

\* A closed popup opens on the map.
PopupOpen(s) ==
  /\ map
  /\ ~surfaces[s].open
  /\ Len(zLog.assigned) < MaxZAssign
  /\ ZCommit(popupopen([ZBegin EXCEPT !.surfaces[s].open = TRUE], s), "popupopen", s)
  /\ UNCHANGED <<coords, nearby, inflight, nextSeq, alertMessage, fetchLog, homeVars>>
  /\ UNCHANGED <<markerVars, gateVars>>

\* An open popup closes.
PopupClose(s) ==
  /\ surfaces[s].open
  /\ ZCommit(popupclose([ZBegin EXCEPT !.surfaces[s].open = FALSE], s), "popupclose", s)
  /\ UNCHANGED <<coords, nearby, inflight, nextSeq, alertMessage, fetchLog, homeVars>>
  /\ UNCHANGED <<markerVars, gateVars>>

\* A pointerdown or a click on an open popup.
Pointer(s, e) ==
  /\ surfaces[s].open
  /\ LET n == Cardinality({l \in surfaces[s].listeners : l[1] = e})
     IN /\ Len(zLog.assigned) + n <= MaxZAssign
        /\ ZCommit(Dispatch(ZBegin, s, n), e, s)
  /\ UNCHANGED <<coords, nearby, inflight, nextSeq, alertMessage, fetchLog, homeVars>>
  /\ UNCHANGED <<markerVars, gateVars>>

Init == MarkerInit /\ GateIdle /\ FetchIdle /\ ZIdle

Spec == Init /\ [][Next]_vars

GateNext ==
  \/ \E lat \in GateLats : Evaluate(lat)
  \/ Reset
  \/ Fire
  \/ GateTick

GateInit == MarkerInit /\ ~map /\ GateIdle /\ FetchIdle /\ ZIdle

GateSpec == GateInit /\ [][GateNext]_vars

\* The gate in a browser that lets time pass and runs a timeout that is due.
GateLiveSpec == GateSpec /\ WF_vars(Fire) /\ WF_vars(GateTick)

(***************************************************************************)
(* The motion gate made with either threshold option: 0, or the default.   *)
(***************************************************************************)
GateThresholds == {0, threshold}

OptGateInit ==
  /\ MarkerInit /\ ~map
  /\ distanceThresholdMeters \in GateThresholds
  /\ GateFresh /\ FetchIdle /\ ZIdle

OptGateSpec == OptGateInit /\ [][GateNext]_vars

FetchNext ==
  \/ Mount
  \/ MapChange
  \/ CoordsArrive
  \/ FetchNearby
  \/ \E seq \in 1..MaxRequests, resp \in Responses : Respond(seq, resp)
  \/ AlertExpire

FetchSpec == Init /\ [][FetchNext]_vars

(***************************************************************************)
(* The MarkerLayer component with up to MaxPopupPosts posts of distinct    *)
(* ids: post 1 at position 0, the others at position 1, so that at the     *)
(* closer zoom post 1 stands alone beside a cluster of the others.         *)
(***************************************************************************)
MaxPopupPosts == 3

PopupPost ==
  {[id |-> i, message |-> "a", latlng |-> IF i = 1 THEN 0 ELSE 1,
    createdAt |-> CreatedAtOf(i)] : i \in 1..MaxPopupPosts}

PopupLists ==
  {l \in SeqsUpTo(PopupPost, MaxPopupPosts) : Len(l) = Cardinality(Ids(l))}

PopupNext ==
  \/ Mount
  \/ \E ps \in PopupLists : PostsChange(ps)
  \/ MapChange
  \/ \E z \in 0..MaxZoom : ZoomEnd(z)
  \/ Unmount

PopupSpec == Init /\ [][PopupNext]_vars

(***************************************************************************)
(* The same component on a layer whose cluster nodes may, during a         *)
(* handler, have no children or no getAllChildMarkers.                     *)
(***************************************************************************)
\* The lists of PopupLists in the order of their ids.
FaultLists ==
  {l \in PopupLists : \A i, j \in 1..Len(l) : i < j => l[i].id < l[j].id}

FaultNext ==
  \/ Mount
  \/ \E ps \in FaultLists, f \in Faults : PostsChangeWith(ps, f)
  \/ \E z \in 0..MaxZoom, f \in Faults : ZoomEndWith(z, f)

FaultInit == Init /\ map

FaultSpec == FaultInit /\ [][FaultNext]_vars

(***************************************************************************)
(* The same component given a post that lacks coordinates: its lat and    *)
(* lng are missing (undefined).                                            *)
(***************************************************************************)
MaxBadList == 2    \* longest list with posts that lack coordinates

BadPost ==
  {[id |-> MaxPopupPosts, message |-> "a", latlng |-> Undefined,
    createdAt |-> CreatedAtOf(MaxPopupPosts)]}

BadLists ==
  {l \in SeqsUpTo(PopupPost \cup BadPost, MaxBadList) : Len(l) = Cardinality(Ids(l))}

BadPostNext ==
  \/ Mount
  \/ \E ps \in BadLists : PostsChange(ps)

BadPostInit == Init /\ map

BadPostSpec == BadPostInit /\ [][BadPostNext]_vars

(***************************************************************************)
(* The component mounted with a list of up to MaxMembers posts, each with  *)
(* its own message and a creation time of its own choosing, under zoom     *)
(* events: at the far zoom all of them share one cluster.                  *)
(***************************************************************************)
MaxMembers == 6

Letters == <<"a", "b", "c", "d", "e", "f", "g", "h">>

AggTimes == {0, 1}

\* The lists of n posts with ids 1..n, alternating between the two positions.
AggLists ==
  UNION {{[i \in 1..n |-> [id |-> i, message |-> Letters[i], latlng |-> i % 2,
                            createdAt |-> t[i]]] : t \in [1..n -> AggTimes]}
         : n \in 0..MaxMembers}

AggInit ==
  /\ phase = "setup"
  /\ map = TRUE
  /\ posts \in AggLists
  /\ clock = MaxClock
  /\ zoom = 0
  /\ layer = FALSE
  /\ markerById = <<>>
  /\ createdMarkers = <<>>
  /\ representativeMarker = 0
  /\ popupPersistAttached = FALSE
  /\ zoomHandlers = 0
  /\ clusterPopups = [key \in ClusterKeys |-> NoPopup]
  /\ log = NoLog
  /\ GateIdle /\ FetchIdle /\ ZIdle

AggNext ==
  \/ Mount
  \/ \E z \in 0..MaxZoom : ZoomEnd(z)

AggSpec == AggInit /\ [][AggNext]_vars

(***************************************************************************)
(* The same component given posts whose creation time differs from one     *)
(* list to the next (and within a list that repeats an id): post 1 at      *)
(* position 0 and post 2 at position 1, one cluster at the far zoom.       *)
(***************************************************************************)
RetimedPost ==
  {[id |-> i, message |-> Letters[i], latlng |-> i - 1, createdAt |-> t] :
     i \in 1..MaxPosts, t \in AggTimes}

MaxRetimed == 3    \* longest list of such posts

RetimedLists == SeqsUpTo(RetimedPost, MaxRetimed)

RetimeNext ==
  \/ Mount
  \/ \E ps \in RetimedLists : PostsChange(ps)
  \/ \E z \in 0..MaxZoom : ZoomEnd(z)

RetimeInit == Init /\ map

RetimeSpec == RetimeInit /\ [][RetimeNext]_vars

(***************************************************************************)
(* The Home view's wiring (onMounted): what calls fetchNearby.  The        *)
(* geolocation watcher hands each position to the motion gate, whose       *)
(* timeout calls fetchNearby; a radius change, the refresh button, a       *)
(* submitted post and a post_created message of the socket call it         *)
(* directly.  The map is not there yet, so an answered list reaches no     *)
(* marker.  The geolocation, once known, stays known.                      *)
(***************************************************************************)
MaxTriggers == 3

HomeLats == {0, 50}

DirectTriggers == {"radius", "refresh", "submitted"}

\* What a post_created message may carry.
Payloads == {"undefined", "post", "junk"}

NoPayload == "undefined"

HomeResponses ==
  {[kind |-> "reject", ok |-> FALSE, items |-> <<>>],
   [kind |-> "items", ok |-> FALSE, items |-> <<>>],
   [kind |-> "items", ok |-> TRUE, items |-> <<>>]}

\* The trigger is counted: one more trigger, one more call of fetchNearby,
\* and one more trigger with the geolocation known if it is.
TriggerCounted(op, d) ==
  /\ triggerLog.triggers < MaxTriggers
  /\ triggerLog' = [op |-> op, payload |-> d,
                    triggers |-> triggerLog.triggers + 1,
                    calls |-> triggerLog.calls + 1,
                    withCoords |-> triggerLog.withCoords + IF coords # Null THEN 1 ELSE 0]

\* The same for a trigger that touches nothing else of the view.
Counted(op, d) ==
  /\ TriggerCounted(op, d)
  /\ UNCHANGED <<homeView, followVars, appVars>>

\* watch(coords): updateUserLocationOnMap, then the position goes to the
\* gate.  The watcher belongs to the view and stops with it.
CoordsWatch(lat) ==
  /\ homeView = "mounted"
  /\ coords' = lat
  /\ LET v == updateUserLocationOnMap(FollowState, lat)
     IN /\ following' = v.following
        /\ viewCenter' = v.center
        /\ zoom' = v.zoom
        /\ followLog' = IF map THEN FollowLogOf("position") ELSE followLog
  /\ EvaluateCall(lat)
  /\ UNCHANGED <<nearby, inflight, nextSeq, alertMessage, fetchLog, zVars, triggerLog, homeView,
                 appVars>>
  /\ UNCHANGED <<phase, map, posts, clock, layer, markerById, createdMarkers,
                 representativeMarker, popupPersistAttached, zoomHandlers, clusterPopups, log>>

\* The gate's timeout: fetchFn is fetchNearby.
DebounceFire ==
  /\ FireCall
  /\ FetchNearbyCall
  /\ Counted("debounce", NoPayload)
  /\ UNCHANGED <<markerVars, zVars>>

\* watch(radius), @refresh and the end of a successful submitPost (which
\* needs the geolocation): fetchNearby().  The watcher and the controls
\* are the view's own.
Signal(k) ==
  /\ homeView = "mounted"
  /\ k = "submitted" => coords # Null
  /\ FetchNearbyCall
  /\ Counted(k, NoPayload)
  /\ UNCHANGED <<markerVars, gateVars, zVars>>

\* A post_created handler that hands the stored position to the gate again.
PostCreated_Gated(d) ==
  /\ coords # Null
  /\ EvaluateCall(coords)
  /\ triggerLog' = [triggerLog EXCEPT !.op = "post_created", !.payload = d,
                                      !.triggers = @ + 1]
  /\ triggerLog.triggers < MaxTriggers
  /\ UNCHANGED <<coords, nearby, inflight, nextSeq, alertMessage, fetchLog, zVars, homeView,
                 followVars, appVars>>
  /\ UNCHANGED markerVars

\* socket.on('post_created', d): addLog, fetchNearby().
PostCreated(d) ==
  /\ FetchNearbyCall
  /\ Counted("post_created", d)
  /\ UNCHANGED <<markerVars, gateVars, zVars>>

HomeNext ==
  \/ \E lat \in HomeLats : CoordsWatch(lat)
  \/ DebounceFire
  \/ GateTick
  \/ \E k \in DirectTriggers : Signal(k)
  \/ \E d \in Payloads : PostCreated(d)
  \/ \E seq \in 1..MaxRequests, resp \in HomeResponses : Respond(seq, resp)

HomeInit == MarkerInit /\ ~map /\ GateIdle /\ FetchIdle /\ ZIdle

HomeSpec == HomeInit /\ [][HomeNext]_vars

(***************************************************************************)
(* The same view when the user navigates away from it.  onBeforeUnmount    *)
(* removes the pointerdown listener of the document, and Vue stops the     *)
(* view's watchers; the gate's timeout stays with the browser and the      *)
(* socket stays connected with its handlers.                               *)
(***************************************************************************)
\* onBeforeUnmount
HomeUnmount ==
  /\ homeView = "mounted"
  /\ homeView' = "unmounted"
  /\ UNCHANGED <<triggerLog, followVars, appVars>>
  /\ UNCHANGED <<coords, nearby, inflight, nextSeq, alertMessage, fetchLog, zVars>>
  /\ UNCHANGED <<markerVars, gateVars>>

LeaveNext ==
  \/ \E lat \in HomeLats : CoordsWatch(lat)
  \/ DebounceFire
  \/ GateTick
  \/ \E d \in Payloads : PostCreated(d)
  \/ HomeUnmount
  \/ \E seq \in 1..MaxRequests, resp \in HomeResponses : Respond(seq, resp)

LeaveSpec == HomeInit /\ [][LeaveNext]_vars

(***************************************************************************)
(* The Home view with its map: the map arrives (onMapReady), positions     *)
(* arrive, the user drags and zooms the map and presses the recenter       *)
(* button.  The MarkerLayer is left out: no marker is on the map.          *)
(***************************************************************************)
FollowCenters == HomeLats \cup {25}

\* The zoom levels of the map: the model's, and the one the code falls
\* back to.
FollowZooms == (0..MaxZoom) \cup {DefaultZoom}

\* onMapReady: map = m; attachMapFollowHandlers(m).  MapCanvas hands over
\* a map whose view is set.
MapReady ==
  /\ ~map
  /\ map' = TRUE
  /\ \E c \in FollowCenters : viewCenter' = c
  /\ \E z \in FollowZooms : zoom' = z
  /\ followLog' = FollowLogOf("ready")
  /\ UNCHANGED <<following, triggerLog, homeView, appVars>>
  /\ UNCHANGED <<coords, nearby, inflight, nextSeq, alertMessage, fetchLog, zVars>>
  /\ UNCHANGED <<phase, posts, clock, layer, markerById, createdMarkers,
                 representativeMarker, popupPersistAttached, zoomHandlers, clusterPopups, log>>
  /\ UNCHANGED gateVars

\* The user drags the map to another centre: dragstart.
Drag(c) ==
  /\ map
  /\ c # viewCenter
  /\ following' = followOff(FollowState).following
  /\ viewCenter' = c
  /\ followLog' = FollowLogOf("dragstart")
  /\ UNCHANGED <<triggerLog, homeView, appVars>>
  /\ UNCHANGED <<coords, nearby, inflight, nextSeq, alertMessage, fetchLog, zVars>>
  /\ UNCHANGED <<markerVars, gateVars>>

\* The user zooms the map: zoomstart.
UserZoom(z) ==
  /\ map
  /\ z # zoom
  /\ following' = followOff(FollowState).following
  /\ zoom' = z
  /\ followLog' = FollowLogOf("zoomstart")
  /\ UNCHANGED <<viewCenter, triggerLog, homeView, appVars>>
  /\ UNCHANGED <<coords, nearby, inflight, nextSeq, alertMessage, fetchLog, zVars>>
  /\ UNCHANGED <<phase, map, posts, clock, layer, markerById, createdMarkers,
                 representativeMarker, popupPersistAttached, zoomHandlers, clusterPopups, log>>
  /\ UNCHANGED gateVars

\* @recenter: recenterToUser()
RecenterClick ==
  /\ homeView = "mounted"
  /\ LET v == recenterToUser(FollowState, coords)
     IN /\ following' = v.following
        /\ viewCenter' = v.center
        /\ zoom' = v.zoom
  /\ followLog' = FollowLogOf("recenter")
  /\ UNCHANGED <<triggerLog, homeView, appVars>>
  /\ UNCHANGED <<coords, nearby, inflight, nextSeq, alertMessage, fetchLog, zVars>>
  /\ UNCHANGED <<phase, map, posts, clock, layer, markerById, createdMarkers,
                 representativeMarker, popupPersistAttached, zoomHandlers, clusterPopups, log>>
  /\ UNCHANGED gateVars

FollowNext ==
  \/ MapReady
  \/ \E lat \in HomeLats : CoordsWatch(lat)
  \/ DebounceFire
  \/ GateTick
  \/ \E c \in FollowCenters : Drag(c)
  \/ \E z \in FollowZooms : UserZoom(z)
  \/ RecenterClick

FollowSpec == HomeInit /\ [][FollowNext]_vars

(***************************************************************************)
(* The router with the auth store: the application starts with whatever    *)
(* restoreFromStorage found, the user navigates, logs in and out, and time *)
(* passes.                                                                 *)
(***************************************************************************)
NavNext ==
  \/ \E p \in Paths : Navigate(p)
  \/ \E e \in ExpiresAts : LoginOk(e)
  \/ Logout
  \/ ClockTick

\* auth.restoreFromStorage() before the first navigation
NavInit ==
  /\ MarkerInit /\ ~map /\ GateIdle /\ FetchFresh /\ ZIdle /\ PostIdle
  /\ auth \in AuthStates
  /\ now = 1
  /\ isAuthenticatedCache = NoCache
  /\ route = NoRoute
  /\ navLog = NoNavLog

NavSpec == NavInit /\ [][NavNext]_vars

(***************************************************************************)
(* The Home view's post form: the user types, submits, the server answers  *)
(* in any order, the position arrives, time passes.                        *)
(***************************************************************************)
\* v-model="message"
TypeMessage(m) ==
  /\ m # message
  /\ message' = m
  /\ postLog' = [postLog EXCEPT !.op = "type"]
  /\ UNCHANGED <<isPosting, postInflight, navVars>>
  /\ UNCHANGED <<triggerLog, homeView, followVars>>
  /\ UNCHANGED <<coords, nearby, inflight, nextSeq, alertMessage, fetchLog, zVars>>
  /\ UNCHANGED <<markerVars, gateVars>>

\* @submit: submitPost up to the await.
SubmitPost ==
  /\ postLog.sent < MaxSubmits
  /\ LET c == readIsAuthenticated(isAuthenticatedCache, auth, now)
         alert == submitPostCheck(c.value, message, coords)
     IN /\ isAuthenticatedCache' = c
        /\ IF alert # ""
           THEN /\ alertMessage' = alert
                /\ UNCHANGED <<isPosting, postInflight>>
           ELSE /\ isPosting' = TRUE
                /\ postInflight' = postInflight \cup {postLog.sent + 1}
                /\ UNCHANGED alertMessage
        /\ postLog' = [op |-> "submit", reported |-> c.value,
                       len |-> trimmedLength(message), hadCoords |-> (coords # Null),
                       sent |-> IF alert # "" THEN postLog.sent ELSE postLog.sent + 1,
                       outcome |-> IF alert # "" THEN "alert" ELSE "sent"]
  /\ UNCHANGED <<message, auth, now, route, navLog>>
  /\ UNCHANGED <<triggerLog, homeView, followVars>>
  /\ UNCHANGED <<coords, nearby, inflight, nextSeq, fetchLog, zVars>>
  /\ UNCHANGED <<markerVars, gateVars>>

\* The answer to post request id arrives and submitPost runs to its end;
\* on success it calls fetchNearby.
PostRespond(id, resp) ==
  /\ id \in postInflight
  /\ postInflight' = postInflight \ {id}
  /\ LET r == submitPostResume([message |-> message, isPosting |-> isPosting,
                                alert |-> alertMessage], resp)
     IN /\ message' = r.message
        /\ isPosting' = r.isPosting
        /\ postLog' = [postLog EXCEPT !.op = "done",
                                      !.outcome = IF resp.kind = "reject" THEN "exception"
                                                  ELSE IF resp.ok THEN "success"
                                                  ELSE "httperror"]
        /\ IF r.refetch
           THEN /\ FetchNearbyCall
                /\ TriggerCounted("submitted", NoPayload)
                /\ UNCHANGED <<homeView, followVars, navVars>>
           ELSE /\ alertMessage' = r.alert
                /\ UNCHANGED <<coords, nearby, inflight, nextSeq, fetchLog>>
                /\ UNCHANGED <<triggerLog, homeView, followVars, navVars>>
  /\ UNCHANGED <<zVars, markerVars, gateVars>>

SubmitNext ==
  \/ \E m \in PostMessages : TypeMessage(m)
  \/ SubmitPost
  \/ \E id \in 1..MaxSubmits, resp \in PostResponses : PostRespond(id, resp)
  \/ CoordsArrive
  \/ ClockTick
  \/ AlertExpire

SubmitSpec == NavInit /\ [][SubmitNext]_vars

ZNext ==
  \/ \E s \in SurfaceIds : PopupOpen(s)
  \/ \E s \in SurfaceIds : PopupClose(s)
  \/ \E s \in SurfaceIds, e \in PointerEvents : Pointer(s, e)

ZInit == MarkerInit /\ map /\ GateIdle /\ FetchIdle /\ ZIdle

ZSpec == ZInit /\ [][ZNext]_vars


(***************************************************************************)
(* Claims about renderDiff, checked under Spec.                            *)
(***************************************************************************)
Keys(tbl) == {tbl[k].id : k \in 1..Len(tbl)}

MarkerOf(tbl, id) == tbl[IndexOfId(tbl, id)]

\* The entry of the list that a marker of this id ends up showing: the last.
LastPost(ps, id) ==
  ps[CHOOSE k \in 1..Len(ps) : ps[k].id = id /\ \A j \in (k + 1)..Len(ps) : ps[j].id # id]

DistinctIds(ps) == Len(ps) = Cardinality(Ids(ps))

\* A step that is a reconcile pass (Tick, ZoomEnd and Unmount log another name).
IsPass == log'.op = "renderDiff"

\* C1: immediately after every reconcile pass the keys of the marker table are
\* exactly the ids of the latest post list, one marker for each id: no id of
\* an earlier list survives, none of the latest is missing, and a repeated id
\* has one marker.
C1_TableEqualsLatestIds ==
  log.op = "renderDiff" =>
    /\ Keys(markerById) = Ids(posts)
    /\ Len(markerById) = Cardinality(Ids(posts))

\* A pass that removed a stale marker, added one and met a repeated id.
C1_Witness ==
  /\ log.op = "renderDiff"
  /\ log.removed # {} /\ log.added # {}
  /\ ~DistinctIds(posts)

\* The ids with a marker before the pass that the new list has too.
KeptIds == Keys(markerById) \cap Ids(posts) \cap Ids(posts')

C2_SameMarker(id) ==
  /\ id \in Keys(markerById')
  /\ MarkerOf(markerById', id).obj = MarkerOf(markerById, id).obj
  /\ MarkerOf(markerById, id).obj \notin log'.added \cup log'.removed
  /\ MarkerOf(markerById', id).content = markerHtml(LastPost(posts', id), clock')

\* Every post of the new list with this id is where the marker is.
C2_SamePosition(id) ==
  \A k \in 1..Len(posts') :
    posts'[k].id = id => posts'[k].latlng = MarkerOf(markerById, id).latlng

SameRelativeTimes ==
  \A k \in 1..Len(posts) :
    formatRelative(posts[k].createdAt, clock') = formatRelative(posts[k].createdAt, log.passAt)

\* C10 as claimed: a reconcile pass given the list of the pass before it makes
\* no setContent call at all.
C10_Original ==
  [][(IsPass /\ log'.repeat) => log'.writes + log'.cwrites = 0]_vars

\* C10 amended: a reconcile pass given the list of the pass before it writes no
\* marker popup's content, when the list's ids are distinct and every post's
\* relative time reads as it did at the pass before.
C10_NoMarkerWriteOnRepeat ==
  [][(IsPass /\ log'.repeat /\ DistinctIds(posts') /\ SameRelativeTimes) => log'.writes = 0]_vars

\* A repeated pass over two known markers that wrote nothing.
C10_Witness ==
  /\ log.op = "renderDiff" /\ log.repeat
  /\ Len(posts) = 2 /\ DistinctIds(posts)
  /\ log.kept = Ids(posts)
  /\ log.writes = 0

(***************************************************************************)
(* Claims about the motion gate, checked under GateSpec.  A burst is a run *)
(* of accepted calls each made while the timer of the one before is        *)
(* pending.                                                                *)
(***************************************************************************)
\* The step armed a new timeout of debounceMs and holds its id.
Armed ==
  /\ nextTimerId' = nextTimerId + 1
  /\ timer' = nextTimerId
  /\ [id |-> nextTimerId, left |-> debounceMs] \in timers'

\* C5: the accepted calls of a burst lead to exactly one invocation of the
\* trigger function, debounceMs after the last of them: counting a pending
\* timer and the bursts a reset cancelled, there are as many invocations as
\* bursts, and each comes debounceMs after the last accepted call.
C5_OneTriggerPerBurst ==
  /\ fetchCalls + gateGhost.dropped + Cardinality(timers) = gateGhost.bursts
  /\ gateLog.op = "fire" => gateLog.waited = debounceMs

\* The only invocation so far came after a burst of three calls or more.
C5_Witness ==
  /\ gateLog.op = "fire"
  /\ gateLog.burst >= 3
  /\ fetchCalls = 1 /\ gateGhost.bursts = 1
  /\ timers = {}

\* C6: with a sample stored, a call takes the new position as the sample and
\* arms the timer iff the position is at least the threshold away from the
\* stored one: exactly 50 m accepts, 49 m does not.
C6_InclusiveThreshold ==
  [][(gateLog'.op = "evaluate" /\ lastLat # Null) =>
       ((lastLat' = gateLog'.lat /\ Armed)
          <=> haversineMeters(lastLat, lastLng, gateLog'.lat, GateLng) >= threshold)]_vars

\* A call exactly the threshold away from the stored sample that was accepted.
C6_Witness ==
  /\ gateLog.op = "evaluate" /\ gateLog.had
  /\ gateLog.dist = threshold
  /\ lastLat = gateLog.lat
  /\ timer # 0 /\ timer + 1 = nextTimerId

\* C7: at most one timeout is pending, and it is the one whose id the gate
\* holds.
C7_AtMostOnePendingTimer ==
  /\ Cardinality(timers) <= 1
  /\ \A t \in timers : t.id = timer

\* An accepted call that replaced a pending timeout.
C7_Witness ==
  /\ gateLog.op = "evaluate" /\ gateLog.replaced
  /\ Cardinality(timers) = 1

\* C8: a call nearer than the threshold to the stored sample changes nothing:
\* the sample, the held timer id, the pending timeout with the time it has
\* left, and the number of invocations stay as they are.
C8_BelowThresholdIsNoOp ==
  [][(/\ gateLog'.op = "evaluate"
      /\ lastLat # Null
      /\ haversineMeters(lastLat, lastLng, gateLog'.lat, GateLng) < threshold)
     => UNCHANGED <<lastLat, lastLng, timer, timers, nextTimerId, fetchCalls>>]_vars

\* A call 1..49 m away made while a timeout was part of its way to its deadline.
C8_Witness ==
  /\ gateLog.op = "evaluate" /\ gateLog.had
  /\ gateLog.dist > 0 /\ gateLog.dist < threshold
  /\ lastLat # gateLog.lat
  /\ \E t \in timers : t.left > 0 /\ t.left < debounceMs

\* C9: a reset leaves no sample and no pending timeout; from the reset to the
\* next call the trigger function is not invoked; and the next call accepts
\* its position whatever it is.
C9_ResetForgets ==
  [][/\ gateLog'.op = "reset" =>
          lastLat' = Null /\ lastLng' = Null /\ timer' = 0 /\ timers' = {}
     /\ gateGhost.resetPending => fetchCalls' = fetchCalls
     /\ (gateGhost.resetPending /\ gateLog'.op = "evaluate") =>
          (lastLat' = gateLog'.lat /\ lastLng' = GateLng /\ Armed)]_vars

\* After a reset that cancelled a timeout, a call at the very position stored
\* before the reset was accepted.
C9_Witness ==
  /\ gateLog.op = "evaluate" /\ gateLog.afterReset /\ gateLog.hadTimer
  /\ gateLog.resetWas = gateLog.lat
  /\ lastLat = gateLog.lat
  /\ timer # 0

(***************************************************************************)
(* Claims about fetchNearby, checked under FetchSpec.                      *)
(***************************************************************************)
\* C3: a list answered to an earlier request never replaces the list
\* answered to a later one: the list shown is the list of the
\* highest-numbered request answered with a list so far.
C3_StaleResultDiscarded ==
  fetchLog.latestSeq > 0 =>
    /\ nearby = fetchLog.latestItems
    /\ posts = fetchLog.latestItems
    /\ map => Keys(markerById) = Ids(fetchLog.latestItems)

\* The step is the arrival of a failed answer.
IsFailedFetch ==
  /\ fetchLog'.op = "failed"
  /\ fetchLog'.seq \in inflight \ inflight'

\* C4: a failed fetch leaves the post list, the marker table, the
\* representative and the popups as they were and runs no reconcile pass; it
\* sets the alert, and the promise of fetchNearby is not rejected.
C4_FailedFetchChangesNothing ==
  [][IsFailedFetch =>
       /\ UNCHANGED <<nearby, posts, layer, markerById, clusterPopups, createdMarkers,
                      representativeMarker, popupPersistAttached, log>>
       /\ alertMessage' = AlertFetchError
       /\ ~fetchLog'.raised]_vars

\* A failed answer arrived while a marker with an open popup was shown.
C4_Witness ==
  /\ fetchLog.op = "failed"
  /\ nearby # <<>>
  /\ representativeMarker # 0
  /\ \E k \in 1..Len(markerById) : markerById[k].open
  /\ alertMessage = AlertFetchError

(***************************************************************************)
(* Claims about the popup stacking of the Home view, checked under ZSpec.  *)
(***************************************************************************)
\* C17: every z-index assigned, by a popup opening or by a pointer event on
\* an open popup, is greater than every z-index assigned before it, so none
\* is assigned twice; and a container's z-index is the last one assigned to
\* it.
C17_ZIndexStrictlyIncreases ==
  /\ \A i, j \in 1..Len(zLog.assigned) :
        i < j => zLog.assigned[i][2] < zLog.assigned[j][2]
  /\ \A i \in 1..Len(zLog.assigned) : zLog.assigned[i][2] < nextPopupZ
  /\ \A s \in SurfaceIds :
        surfaces[s].z # 0 =>
          \E i \in 1..Len(zLog.assigned) :
            /\ zLog.assigned[i] = <<s, surfaces[s].z>>
            /\ \A j \in (i + 1)..Len(zLog.assigned) : zLog.assigned[j][1] # s

\* Popup 1 opened, popup 2 opened, then a pointer event on popup 1: popup 1
\* is above popup 2, which is above where popup 1 was.
C17_Witness ==
  /\ Len(zLog.assigned) = 3
  /\ zLog.assigned[1][1] = 1 /\ zLog.assigned[2][1] = 2 /\ zLog.assigned[3][1] = 1
  /\ zLog.op \in PointerEvents
  /\ surfaces[1].z > surfaces[2].z
  /\ surfaces[2].z > zLog.assigned[1][2]

\* C18: a closed popup container has no listener left and no remembered
\* handler; an open one has one remembered handler, registered once for each
\* of the two pointer events, and no other listener.
C18_ListenersFollowOpenState ==
  \A s \in SurfaceIds :
    IF surfaces[s].open
    THEN /\ popupHandlers[s] # 0
         /\ surfaces[s].listeners = {<<e, popupHandlers[s]>> : e \in PointerEvents}
    ELSE /\ popupHandlers[s] = 0
         /\ surfaces[s].listeners = {}

\* A popup that was opened, touched and closed, while the other one is open.
C18_Witness ==
  /\ zLog.op = "popupclose"
  /\ \E s \in SurfaceIds, t \in SurfaceIds :
        /\ s # t
        /\ zLog.surface = s
        /\ ~surfaces[s].open /\ surfaces[s].z # 0
        /\ Cardinality({i \in 1..Len(zLog.assigned) : zLog.assigned[i][1] = s}) >= 2
        /\ surfaces[t].open

(***************************************************************************)
(* Claims about the popup passes, checked under PopupSpec.                 *)
(***************************************************************************)
\* The last handler was a reconcile pass or a zoom event.
AfterPassOrZoom == log.op \in {"renderDiff", "zoomend"}

\* The marker at index k of the table is shown by itself.
IsSolo(tbl, z, k) == getVisibleParent(tbl, z, tbl[k].obj).kind = "marker"

\* The clusters on the map: the cells of the current zoom with two markers or more.
VisibleClusters(tbl, z) ==
  {key \in ClusterKeys : key[1] = z /\ Cardinality(Members(tbl, z, key[2])) >= 2}

\* C11: after every reconcile pass and every zoom event, every marker of the
\* table that is shown by itself has its popup open.
C11_SoloMarkersOpen ==
  AfterPassOrZoom =>
    \A k \in 1..Len(markerById) : IsSolo(markerById, zoom, k) => markerById[k].open

\* A pass opened the popup of a marker shown by itself that is not the
\* representative.
C11_Witness ==
  /\ log.op = "renderDiff"
  /\ \E k \in 1..Len(markerById) :
        /\ markerById[k].obj # representativeMarker
        /\ IsSolo(markerById, zoom, k)
        /\ markerById[k].open
        /\ markerById[k].obj \in log.opens

\* C12: after every reconcile pass and every zoom event, every cluster on the
\* map has an aggregate popup bound and open.
C12_VisibleClustersOpen ==
  AfterPassOrZoom =>
    \A key \in VisibleClusters(markerById, zoom) :
      clusterPopups[key].bound /\ clusterPopups[key].open

\* C13: a zoom event that leaves a marker shown by itself that was inside a
\* cluster before it leaves that marker's popup open with the marker's own
\* content, the popup of the cluster it was in closed, and no cluster popup
\* at its cell of the new zoom.
C13_SplitClusterOpensMembers ==
  [][(log'.op = "zoomend" /\ zoom' # zoom /\ markerById' # <<>>) =>
       \A k \in 1..Len(markerById) :
         (~IsSolo(markerById, zoom, k) /\ IsSolo(markerById', zoom', k)) =>
           /\ markerById'[k].open
           /\ markerById'[k].content = markerById[k].content
           /\ ~clusterPopups'[<<zoom, Cell(markerById[k].latlng, zoom)>>].open
           /\ clusterPopups'[<<zoom', Cell(markerById[k].latlng, zoom')>>] = NoPopup]_vars

\* A zoom event opened the popups of two markers that shared a cluster whose
\* aggregate popup had been open.
C13_Witness ==
  /\ log.op = "zoomend"
  /\ zoom = MaxZoom
  /\ clusterPopups[<<0, 0>>].bound /\ ~clusterPopups[<<0, 0>>].open
  /\ \E j, k \in 1..Len(markerById) :
        /\ j # k
        /\ IsSolo(markerById, zoom, j) /\ IsSolo(markerById, zoom, k)
        /\ {markerById[j].obj, markerById[k].obj} \subseteq log.opens
        /\ markerById[j].open /\ markerById[k].open

\* The objects of the table's markers.
Objs(tbl) == {tbl[k].obj : k \in 1..Len(tbl)}

\* C14: after a reconcile pass the markers that were in the table before it
\* keep their order and come before the markers the pass made, the
\* representative is the first of them all, and there is none iff the table
\* is empty; a representative whose id is in the new list stays the
\* representative.
C14_RepresentativeIsEarliestSurvivor ==
  [][IsPass =>
       /\ representativeMarker' = 0 <=> markerById' = <<>>
       /\ markerById' # <<>> => representativeMarker' = markerById'[1].obj
       /\ \A i, j \in 1..Len(markerById') :
            (i < j /\ markerById'[j].obj \in Objs(markerById)) =>
              /\ markerById'[i].obj \in Objs(markerById)
              /\ IndexOfObj(markerById, markerById'[i].obj)
                   < IndexOfObj(markerById, markerById'[j].obj)
       /\ (/\ representativeMarker # 0
           /\ MarkerOf(markerById, markerById[IndexOfObj(markerById, representativeMarker)].id).id
                \in Ids(posts'))
          => representativeMarker' = representativeMarker]_vars

\* A pass given the ids of the table in another order, with the
\* representative not the first post of the list.
C14_Witness ==
  /\ log.op = "renderDiff"
  /\ Len(posts) >= 2
  /\ log.added = {} /\ log.removed = {}
  /\ log.kept = Ids(posts)
  /\ representativeMarker # 0
  /\ markerById[IndexOfObj(markerById, representativeMarker)].id # posts[1].id

C19_DisposeClearsEverything ==
  phase = "unmounted" =>
    /\ zoomHandlers = 0 /\ ~popupPersistAttached
    /\ markerById = <<>> /\ createdMarkers = <<>>
    /\ ~layer
    /\ \A key \in ClusterKeys : clusterPopups[key] = NoPopup
    /\ representativeMarker = 0
    /\ log.op = "zoomend" =>
         (log.opens = {} /\ log.copens = {} /\ log.emits = 0 /\ log.cwrites = 0)

\* A zoom event after the unmounting of a component that had a map and posts.
C19_Witness ==
  /\ phase = "unmounted"
  /\ map /\ posts # <<>>
  /\ log.op = "zoomend"

(***************************************************************************)
(* Claims about posts without coordinates, checked under BadPostSpec.      *)
(***************************************************************************)
HasCoords(p) == p.latlng # Undefined

\* C20: a reconcile pass given a list with entries that lack coordinates runs
\* to its end, and after it the table holds exactly the ids of the entries
\* that have coordinates.
C20_EntriesWithoutCoordsSkipped ==
  log.op \in {"renderDiff", "renderDiff:threw"} =>
    /\ log.op = "renderDiff"
    /\ Keys(markerById) = {posts[k].id : k \in {j \in 1..Len(posts) : HasCoords(posts[j])}}

(***************************************************************************)
(* Claims about the content of the aggregate popup (AggSpec).              *)
(***************************************************************************)
\* The member of a cluster whose popup content is c (messages are distinct).
MemberWith(tbl, ms, c) == CHOOSE k \in ms : tbl[k].content = c

\* The items list the content of distinct members, most recent first, as many
\* as the cap allows, and no member left out is more recent than one listed.
ListsMostRecent(tbl, ms, items) ==
  LET n == Len(items)
      listed == {k \in ms : \E j \in 1..n : tbl[k].content = items[j]}
  IN /\ n = (IF Cardinality(ms) < AggregateCap THEN Cardinality(ms) ELSE AggregateCap)
     /\ \A j \in 1..n : \E k \in ms : tbl[k].content = items[j]
     /\ \A i, j \in 1..n : i # j => items[i] # items[j]
     /\ \A i, j \in 1..n :
          i < j => tbl[MemberWith(tbl, ms, items[i])].meta.createdAt
                     >= tbl[MemberWith(tbl, ms, items[j])].meta.createdAt
     /\ \A k \in ms \ listed : \A q \in listed :
          tbl[k].meta.createdAt <= tbl[q].meta.createdAt

\* C15: the aggregate popup of a cluster, whatever its size, lists the
\* content of its members by descending createdAt, min(5, member count) of
\* them, the most recent ones when the cluster has more than 5.
C15_AggregateListsMostRecent ==
  \A key \in ClusterKeys :
    clusterPopups[key].bound =>
      ListsMostRecent(markerById, Members(markerById, key[1], key[2]),
                      clusterPopups[key].content)

\* A cluster of more than 5 members shown with its popup open, the member
\* left out of the list being neither the last nor the first of the layer.
C15_Witness ==
  \E key \in ClusterKeys :
    LET ms == Members(markerById, key[1], key[2])
        items == clusterPopups[key].content
        has(k) == \E j \in 1..Len(items) : markerById[k].content = items[j]
    IN /\ key[1] = zoom
       /\ clusterPopups[key].open
       /\ Cardinality(ms) > AggregateCap
       /\ Len(items) = AggregateCap
       /\ has(1) /\ has(Len(markerById))
       /\ \E k \in ms : ~has(k)

(***************************************************************************)
(* Claims about the gate's threshold option (OptGateSpec).                 *)
(***************************************************************************)
\* The last evaluate call accepted its sample: the sample is stored and one
\* timer, the one the composable holds, is pending with the full debounce.
AcceptedAndArmed ==
  /\ lastLat = gateLog.lat /\ lastLng = GateLng
  /\ timer # 0
  /\ timers = {[id |-> timer, left |-> debounceMs]}

\* C23: an evaluate call made while no sample is stored accepts whatever the
\* position, and with a threshold of 0 every evaluate call accepts and arms
\* the timer.
C23_NoSampleOrZeroThresholdAccepts ==
  (gateLog.op = "evaluate" /\ (~gateLog.had \/ distanceThresholdMeters = 0))
    => AcceptedAndArmed

\* With a threshold of 0, a call at the stored position itself was accepted
\* and replaced the pending timer.
C23_Witness ==
  /\ distanceThresholdMeters = 0
  /\ gateLog.op = "evaluate" /\ gateLog.had /\ gateLog.dist = 0
  /\ gateLog.replaced
  /\ AcceptedAndArmed

(***************************************************************************)
(* Claims about the debounce timer running out (GateLiveSpec).             *)
(***************************************************************************)
\* C27: the timer an accepted call armed leads, unless a later accepted call
\* replaces it or reset() cancels it, to an invocation of the trigger
\* function; the invocation comes once, debounceMs or more after the call,
\* and leaves no timer pending and the stored sample in place.
C27_ArmedTimerFiresOnce ==
  /\ \A i \in 1..MaxArms :
       (timer = i) ~> \/ /\ gateLog.op = "fire"
                         /\ timer = 0 /\ timers = {} /\ lastLat # Null
                      \/ gateLog.op = "reset"
                      \/ timer > i
  /\ [][fetchCalls' # fetchCalls =>
          /\ fetchCalls' = fetchCalls + 1
          /\ timers = {[id |-> timer, left |-> 0]}
          /\ gateLog'.waited >= debounceMs
          /\ timer' = 0 /\ timers' = {}
          /\ lastLat' = lastLat /\ lastLng' = lastLng /\ lastLat # Null]_vars

\* The timer of a single accepted call ran out and the trigger function was
\* invoked; the sample of that call is still stored.
C27_Witness ==
  /\ gateLog.op = "fire" /\ gateLog.burst = 1
  /\ gateLog.waited = debounceMs
  /\ fetchCalls = 1
  /\ timer = 0 /\ timers = {}
  /\ lastLat # Null /\ nextTimerId = 2

(***************************************************************************)
(* Claims about what calls fetchNearby (HomeSpec).                         *)
(***************************************************************************)
\* The step is the arrival of a failed answer in the Home view.
FailedAnswer ==
  /\ fetchLog'.op = "failed"
  /\ inflight' # inflight

\* The statement of C22 as the spec has it: as many requests as triggers.
C22_Original == nextSeq - 1 = triggerLog.triggers

\* C22: fetchNearby is called once per external trigger and by nothing
\* else; a call sends a request iff the geolocation is known, so the
\* requests sent are as many as the triggers that found it known.  A failed
\* answer sends no request and arms no timer: the next request waits for the
\* next trigger.
C22_FetchOnlyOnTrigger ==
  /\ [](triggerLog.calls = triggerLog.triggers)
  /\ [](nextSeq - 1 = triggerLog.withCoords)
  /\ [][nextSeq' # nextSeq => /\ nextSeq' = nextSeq + 1
                              /\ triggerLog'.triggers = triggerLog.triggers + 1]_vars
  /\ [][FailedAnswer => UNCHANGED <<nextSeq, timer, timers, nextTimerId, triggerLog>>]_vars

\* A request failed, and the next request was sent by the trigger after it;
\* an earlier trigger found no geolocation and sent none.
C22_Witness ==
  /\ fetchLog.op = "sent" /\ fetchLog.kind = "reject"
  /\ nextSeq = 3 /\ inflight = {2}
  /\ triggerLog.triggers = 3 /\ triggerLog.withCoords = 2

\* C25: a post_created message, whatever it carries, calls fetchNearby once,
\* with the effect of any call (a request if the geolocation is known, the
\* alert otherwise), and leaves the gate alone: the stored sample and the
\* pending timer are what they were.
C25_PushBypassesGate ==
  [][(triggerLog'.op = "post_created" /\ triggerLog' # triggerLog) =>
       /\ triggerLog'.calls = triggerLog.calls + 1
       /\ IF coords = Null
          THEN /\ alertMessage' = AlertNoCoords
               /\ UNCHANGED <<inflight, nextSeq>>
          ELSE /\ inflight' = inflight \cup {nextSeq}
               /\ nextSeq' = nextSeq + 1
               /\ UNCHANGED alertMessage
       /\ UNCHANGED <<coords, nearby>>
       /\ UNCHANGED <<distanceThresholdMeters, lastLat, lastLng, timer, timers,
                      nextTimerId, fetchCalls>>]_vars

\* A message carrying junk arrived while the gate's timer was pending and
\* sent a request.
C25_Witness ==
  /\ triggerLog.op = "post_created" /\ triggerLog.payload = "junk"
  /\ fetchLog.op = "sent"
  /\ timer # 0 /\ timers # {} /\ lastLat # Null
  /\ \E t \in timers : t.left < debounceMs

(***************************************************************************)
(* Claims about auto-panning (PopupSpec).                                  *)
(***************************************************************************)
\* C24: every popup bound by the component, a marker's or a cluster's, newly
\* bound or used again, has autoPan off, and no handler makes the map pan to
\* a popup.
C24_NoPopupPansTheMap ==
  /\ log.pans = 0
  /\ \A k \in 1..Len(markerById) : ~markerById[k].autoPan
  /\ \A key \in ClusterKeys : clusterPopups[key].bound => ~clusterPopups[key].autoPan

\* A zoom event opened a marker's popup and opened again, with new content,
\* the popup a cluster had from an earlier visit of this zoom level.
C24_Witness ==
  /\ log.op = "zoomend"
  /\ log.opens # {}
  /\ log.cwrites >= 1 /\ log.copens # {}
  /\ log.pans = 0

(***************************************************************************)
(* Claims about cluster nodes without children (FaultSpec).                *)
(***************************************************************************)
\* C21: a handler that finds the cluster nodes without children, or without
\* getAllChildMarkers, binds no cluster popup, writes none, opens none and
\* emits no clusterOpened.
C21_ChildlessClusterIsNothingToShow ==
  (log.fault # "none" /\ log.op \in {"renderDiff", "zoomend"}) =>
    /\ log.binds = 0 /\ log.cwrites = 0
    /\ log.copens = {}
    /\ log.cemits = 0

(***************************************************************************)
(* Claims about the events of the representative pass (AggSpec).           *)
(***************************************************************************)
\* The representative pass ran in the last handler.
RepresentativePassRan ==
  \/ log.op = "renderDiff"
  \/ log.op = "zoomend" /\ zoomHandlers > 0

\* C26: the representative pass emits clusterOpened with the number of
\* members of the representative's cluster when the representative is inside
\* a cluster on the map, markerOpened with the id of the representative's
\* post when it is shown by itself, and emits and opens nothing when there
\* are no markers.
C26_RepresentativeEvent ==
  RepresentativePassRan =>
    IF markerById = <<>>
    THEN /\ log.repEmit = NoEvent /\ log.emits = 0
         /\ log.opens = {} /\ log.copens = {}
    ELSE LET k == IndexOfObj(markerById, representativeMarker)
             parent == getVisibleParent(markerById, zoom, representativeMarker)
         IN /\ k # 0
            /\ IF parent.kind = "cluster"
               THEN log.repEmit =
                      <<"clusterOpened",
                        Cardinality(Members(markerById, parent.key[1], parent.key[2]))>>
               ELSE /\ log.repEmit = <<"markerOpened", markerById[k].meta.id>>
                    /\ \E j \in 1..Len(posts) : posts[j] = markerById[k].meta

\* The representative is in a cluster of more members than the popup lists,
\* and the event carries their number.
C26_Witness ==
  /\ RepresentativePassRan
  /\ Len(markerById) > AggregateCap
  /\ log.repEmit = <<"clusterOpened", Len(markerById)>>

(***************************************************************************)
(* Claims about the update of a marker that exists (Spec).                 *)
(***************************************************************************)
\* The entries of the new list before entry j that have its id.
EarlierSightings(j) == {i \in 1..(j - 1) : posts'[i].id = posts'[j].id}

\* Entry j of the new list meets a marker: one of the table before the pass,
\* or the one an earlier entry of the list made.
MeetsMarker(j) == posts'[j].id \in Keys(markerById) \/ EarlierSightings(j) # {}

\* The content bound to that marker when entry j is met.
ContentMet(j) ==
  IF EarlierSightings(j) # {}
  THEN LET i == CHOOSE i \in EarlierSightings(j) : \A h \in EarlierSightings(j) : h <= i
       IN markerHtml(posts'[i], clock')
  ELSE MarkerOf(markerById, posts'[j].id).content

\* C28: a reconcile pass leaves every marker it met at the position of its
\* post and with the content generated for it, and writes a marker's content
\* exactly when the content generated (message and relative time) differs
\* from the content bound: the pass makes as many content writes as it met
\* entries whose content differed.
C28_WritesIffContentDiffers ==
  [][(IsPass /\ map') =>
       /\ log'.writes =
            Cardinality({j \in 1..Len(posts') :
                           MeetsMarker(j) /\ markerHtml(posts'[j], clock') # ContentMet(j)})
       /\ \A id \in Ids(posts') :
            /\ MarkerOf(markerById', id).latlng = LastPost(posts', id).latlng
            /\ MarkerOf(markerById', id).content = markerHtml(LastPost(posts', id), clock')]_vars

\* A pass met the marker of a post reissued with another message, at the
\* position it had and before the clock moved, and met a second marker whose
\* post had not changed: it made one content write.
C28_Witness ==
  /\ log.op = "renderDiff"
  /\ Len(posts) = 2 /\ DistinctIds(posts)
  /\ log.kept = Ids(posts)
  /\ log.moved = {} /\ log.added = {}
  /\ clock = 0
  /\ log.writes = 1

(***************************************************************************)
(* Claims about the marker list and the representative between handlers    *)
(* (PopupSpec).                                                            *)
(***************************************************************************)
\* C29: between handlers the marker list is the table's markers in the order
\* they were made, and the representative is absent or a marker of the
\* table.
C29_ListAndRepresentativeFollowTable ==
  /\ createdMarkers = [k \in 1..Len(markerById) |-> markerById[k].obj]
  /\ representativeMarker = 0 \/ representativeMarker \in Objs(markerById)

\* A pass removed every marker there was, the representative among them, and
\* made new ones: the representative is one of the new.
C29_Witness ==
  /\ log.op = "renderDiff"
  /\ log.removed # {} /\ log.added # {}
  /\ representativeMarker \in log.added
  /\ Len(createdMarkers) >= 2

(***************************************************************************)
(* Claims about the registration of the zoom handlers (PopupSpec).         *)
(***************************************************************************)
\* C30: however many passes ran, the three zoom handlers are registered at
\* most once, exactly when the component says so, and a zoom event runs each
\* of them once: it emits one event for the representative and one for each
\* cluster on the map.
C30_ZoomHandlersRegisteredOnce ==
  /\ zoomHandlers <= 1
  /\ phase # "unmounted" => (zoomHandlers = 1 <=> popupPersistAttached)
  /\ (log.op = "zoomend" /\ zoomHandlers = 1) =>
       log.emits = (IF markerById = <<>> THEN 0 ELSE 1)
                     + Cardinality(VisibleClusters(markerById, zoom))

\* A zoom event after two passes or more (the table is full, and the pass of
\* the mounting had no posts) ran each handler once: one event for the
\* representative, one for the cluster.
C30_Witness ==
  /\ log.op = "zoomend" /\ zoomHandlers = 1
  /\ Len(markerById) = MaxPopupPosts
  /\ log.emits = 2

(***************************************************************************)
(* C32.  In every reachable state of the motion gate, a pending debounce   *)
(* timer implies a stored sample: whenever the composable holds a timer id *)
(* or the browser holds one of its timeouts, lastLat and lastLng are set.  *)
(* (onCoordsChange stores the sample before it arms the timer; reset       *)
(* cancels the timer when it drops the sample.)                            *)
(***************************************************************************)
C32_PendingTimerHasSample ==
  (timer # 0 \/ timers # {}) => (lastLat # Null /\ lastLng # Null)

\* A timer is pending for a sample that was stored after a reset that
\* cancelled an earlier timer.
C32_Witness ==
  /\ gateLog.op = "evaluate" /\ gateLog.afterReset /\ gateLog.hadTimer
  /\ timer # 0 /\ timers # {}
  /\ lastLat # Null

(***************************************************************************)
(* C31.  After each reconcile pass (and each zoom event that follows it)   *)
(* the post a marker refers back to is the entry of the most recent list   *)
(* with the marker's id, the last one when the list repeats the id.  So    *)
(* the aggregate of the representative's cluster is ordered by the latest  *)
(* creation times, and the markerOpened event carries the latest id.       *)
(* Checked under RetimeSpec.                                               *)
(***************************************************************************)
\* The table with every back-reference taken from the latest list.
LatestTable ==
  [k \in 1..Len(markerById) |->
     [markerById[k] EXCEPT !.meta = LastPost(posts, markerById[k].id)]]

C31_MarkersReferToLatestEntry ==
  AfterPassOrZoom =>
    /\ \A k \in 1..Len(markerById) :
         markerById[k].meta = LastPost(posts, markerById[k].id)
    /\ LET parent == getVisibleParent(markerById, zoom, representativeMarker)
       IN /\ parent.kind = "cluster" =>
               ListsMostRecent(LatestTable,
                               Members(markerById, parent.key[1], parent.key[2]),
                               clusterPopups[parent.key].content)
          /\ parent.kind = "marker" /\ log.repEmit # NoEvent =>
               log.repEmit =
                 <<"markerOpened",
                   LastPost(posts, markerById[IndexOfObj(markerById, representativeMarker)].id).id>>

\* A pass kept both markers and was given a list that names post 1 twice,
\* last with the later creation time, which makes it the newer of the two;
\* the cluster lists it first although the layer holds post 2 first.
C31_Witness ==
  /\ log.op = "renderDiff" /\ log.kept = {1, 2} /\ log.added = {}
  /\ zoom = 0 /\ clock = 0
  /\ Len(posts) = MaxRetimed
  /\ \E i, j \in 1..Len(posts) :
       /\ i < j /\ posts[i].id = 1 /\ posts[j].id = 1
       /\ posts[i].createdAt = 0 /\ posts[j].createdAt = 1
  /\ markerById[1].id = 2
  /\ MarkerOf(markerById, 1).meta.createdAt > MarkerOf(markerById, 2).meta.createdAt
  /\ clusterPopups[<<0, 0>>].open
  /\ clusterPopups[<<0, 0>>].content =
       <<MarkerOf(markerById, 1).content, MarkerOf(markerById, 2).content>>

(***************************************************************************)
(* C33.  During one zoom event clusterOpened is emitted at most once for   *)
(* each visible cluster, the representative's cluster included: the        *)
(* clusterOpened events of a zoom event are no more than the clusters on   *)
(* the map.  Checked under PopupSpec.  (The handlers of openRepresentative *)
(* Popup and openVisibleClusterPopups both run on zoomend and both emit    *)
(* for the cluster that holds the representative.)                         *)
(***************************************************************************)
C33_ClusterOpenedOncePerCluster ==
  log.op = "zoomend" => log.cemits <= Cardinality(VisibleClusters(markerById, zoom))

(***************************************************************************)
(* C34.  A successful fetch replaces the post list wholesale with the      *)
(* items of the response: nearby, and with it the posts prop, become that  *)
(* list whatever they were.  When the successful response has no items     *)
(* field the list becomes empty, and the pass that follows takes every     *)
(* marker off the layer, empties the table and the marker list and clears  *)
(* the representative.  Checked under FetchSpec.                           *)
(***************************************************************************)
\* An answer that fetchNearby takes for a success: the status is OK and the
\* body is an object.
SuccessfulAnswer(resp) == resp.ok /\ resp.kind \in {"items", "noitems"}

C34_SuccessReplacesList ==
  [][\A seq \in 1..MaxRequests, resp \in Responses :
       (Respond(seq, resp) /\ SuccessfulAnswer(resp)) =>
         /\ nearby' = (IF resp.kind = "items" THEN resp.items ELSE <<>>)
         /\ posts' = nearby'
         /\ (map /\ phase = "mounted") =>
              /\ log'.op = "renderDiff"
              /\ Keys(markerById') = Ids(nearby')
         /\ resp.kind = "noitems" =>
              /\ markerById' = <<>>
              /\ createdMarkers' = <<>>
              /\ representativeMarker' = 0
              /\ log'.removed = Objs(markerById)]_vars

\* A successful answer without an items field arrived while a marker with
\* an open popup was shown: the marker is gone and so is the representative.
C34_Witness ==
  /\ fetchLog.op = "loaded" /\ fetchLog.kind = "noitems" /\ fetchLog.ok
  /\ log.op = "renderDiff" /\ log.removed # {}
  /\ nearby = <<>> /\ posts = <<>>
  /\ markerById = <<>> /\ representativeMarker = 0

(***************************************************************************)
(* C35.  After the Home view is unmounted it issues no further fetch       *)
(* request: a step taken with the view unmounted sends none, whether it    *)
(* is the timeout of a debounce timer that was pending at unmount or a     *)
(* push notification that arrives later.  Checked under LeaveSpec.         *)
(***************************************************************************)
C35_NoFetchAfterUnmount ==
  [][homeView = "unmounted" => (nextSeq' = nextSeq /\ inflight' \subseteq inflight)]_vars

\* The part that holds: with the view unmounted no position reaches the
\* gate, so no timer is armed after the unmount.
NoTimerArmedAfterUnmount ==
  [][homeView = "unmounted" => nextTimerId' = nextTimerId]_vars

(***************************************************************************)
(* C36.  The follow flag starts true; every dragstart and every zoomstart  *)
(* of the map leaves it false and every recenter leaves it true, with the  *)
(* view on the position; a position update that finds a map moves the      *)
(* view to the new position iff the flag is true when it arrives, and      *)
(* leaves centre and zoom as they are otherwise.  Checked under            *)
(* FollowSpec.                                                             *)
(***************************************************************************)
C36_FollowFlagDecidesViewMoves ==
  /\ following = TRUE
  /\ [][/\ \A c \in FollowCenters : Drag(c) => ~following'
        /\ \A z \in FollowZooms : UserZoom(z) => ~following'
        /\ (map /\ zoom' # zoom) => ~following'
        /\ (RecenterClick /\ map /\ coords # Null) =>
              (following' /\ viewCenter' = coords /\ zoom' = zoom)
        /\ \A lat \in HomeLats :
             (CoordsWatch(lat) /\ map) =>
                IF following THEN viewCenter' = lat
                ELSE UNCHANGED <<viewCenter, zoom, following>>]_vars

\* A position arrived after the user had dragged the map away: the view
\* stayed where the user left it.
C36_Witness ==
  /\ followLog.op = "position" /\ ~followLog.was
  /\ ~following
  /\ coords # Null /\ viewCenter # coords
  /\ viewCenter = followLog.from

(***************************************************************************)
(* C37.  For every authentication state a navigation settles after at     *)
(* most one redirect and never loops: when the user is not authenticated   *)
(* (no token, no expiry, or the current time at or past the expiry) every  *)
(* path other than /login ends on /login with the path as next; when       *)
(* authenticated, /login ends on /; every other navigation ends where it   *)
(* was headed, without a redirect.  Checked under NavSpec.                 *)
(***************************************************************************)
\* What the claim expects of a navigation to path `to`, given whether the user
\* counts as authenticated.
GuardOutcome(to, authd) ==
  /\ navLog.settled
  /\ navLog.redirects <= 1
  /\ IF ~authd /\ to # "/login"
     THEN route = [path |-> "/login", next |-> to] /\ navLog.redirects = 1
     ELSE IF authd /\ to = "/login"
     THEN route.path = "/" /\ navLog.redirects = 1
     ELSE route.path = to /\ navLog.redirects = 0

C37_GuardFollowsAuthentication ==
  navLog.op = "navigate" => GuardOutcome(navLog.to, navLog.actual)

\* The part that holds: the guard follows what the store reports, and every
\* navigation settles after one redirect at most.
GuardFollowsStore ==
  navLog.op = "navigate" => GuardOutcome(navLog.to, navLog.reported)

(***************************************************************************)
(* C38.  submitPost sends a post request only when the user is             *)
(* authenticated (as the auth store reports it), the trimmed message is    *)
(* non-empty and at most 280 characters long, and the position is known;   *)
(* otherwise it sends nothing and shows an alert.  On every completion     *)
(* path (success, HTTP error, exception) the posting flag is false         *)
(* afterwards, and fetchNearby is called on success and on no other path.  *)
(* Checked under SubmitSpec.                                               *)
(***************************************************************************)
PostAlerts ==
  {AlertNotLoggedIn, AlertMessageRequired, AlertMessageTooLong, AlertNoPosition}

====
